---- MODULE Spec2Model ----
(***************************************************************************)
(* BESCO back-office API (traceoftu/besco_render).                         *)
(*                                                                         *)
(* The committed contents of the relational store are the state; every     *)
(* request handler of main.py is one action that maps the committed state  *)
(* before the request to the committed state after it (each request runs   *)
(* in its own session, so whatever was not committed when the handler      *)
(* leaves is discarded).  A handler that commits twice is modelled with    *)
(* both commit points.  A database fault (lost connection, failed commit)  *)
(* is an input of the action: it names the step at which the driver        *)
(* raises.                                                                 *)
(*                                                                         *)
(* Units.  Float columns are modelled in exact fixed-point arithmetic:     *)
(*   Order.quantity, MaterialPurchase.quantity_kg   kg (integers)          *)
(*   Inventory.quantity, requirement quantities     1/Unit kg (grams)      *)
(*   prices, sales, costs                           won                    *)
(* so 1.2 is blend_ratio/10, 0.55 is 55/100 and 1.23 is 123/100.           *)
(* Material names: "Brazil", "Colombia", "Guatemala", "Sidamo" stand for   *)
(* the four origin names of main.py:335-338.                               *)
(***************************************************************************)
EXTENDS Integers, Sequences, FiniteSets, TLC

VARIABLES
    customers,          \* set of Customer.name
    materials,          \* Material rows: id -> [name, type]
    blend_components,   \* set of BlendComponent rows [id, blend_id, component_id, ratio]
    blend_component_id_seq,  \* next value of blend_components_id_seq
    inventory,          \* Inventory rows: material_id -> quantity (1/Unit kg)
    orders,             \* set of Order rows
    purchases,          \* set of MaterialPurchase rows
    material_id_seq,    \* next value of materials_id_seq
    order_id_seq,       \* next value of orders_id_seq
    purchase_id_seq,    \* next value of material_purchases_id_seq
    response,           \* the answer to the last request
    inventory_before,   \* history: the Inventory rows when the last request arrived
    report,             \* the payload of the last analytics request
    processing_ratio,   \* Material.processing_ratio: id -> ratio, in tenths
    valid_api_keys,     \* os.getenv("API_KEYS", "").split(",")
    sessions            \* requests in flight: their position and what they read

vars == <<customers, materials, blend_components, inventory, orders, purchases,
          material_id_seq, order_id_seq, purchase_id_seq, blend_component_id_seq,
          response, inventory_before, report, processing_ratio,
          valid_api_keys, sessions>>

store == <<customers, materials, blend_components, inventory, orders, purchases>>

----------------------------------------------------------------------------
(* Bounds of the model *)

MaxMaterialId == 6      \* materials_id_seq stops here
MaxOrderId == 1         \* orders_id_seq stops here
MaxPurchaseId == 1      \* material_purchases_id_seq stops here

(* Fixed-point unit: quantities of the ledger are counted in 1/Unit kg *)
Unit == 1000

(* An id no row has, and a date string that does not parse *)
UnknownId == 99
BadDate == 0

(* Inputs of the ledger requests.  Material 2 is a stocked origin, 3 an     *)
(* origin that may lack its Inventory row, 5 the blend, 6 the material      *)
(* POST /materials/ creates.                                                *)
OrderQtys == {-10, 10, 50}
OrderMaterialIds == {2, 5, 6, UnknownId}
PurchaseQtys == {-20, 100}
PurchaseMaterialIds == {3, 6, UnknownId}
OrderPrices == {15000}
PurchasePrices == {10000}
LedgerDates == {20240201, BadDate}
NewMaterialNames == {"Kenya", "Sidamo"}
MaterialTypes == {"regular", "single_origin", "blend", "blending"}
CustomerNames == {"Nowon", "Ghost"}

----------------------------------------------------------------------------
(* Generic helpers *)

Max(a, b) == IF a >= b THEN a ELSE b

RECURSIVE SumOver(_, _)
SumOver(S, f) ==
    IF S = {} THEN 0
    ELSE LET x == CHOOSE y \in S : TRUE
         IN f[x] + SumOver(S \ {x}, f)

NoReport == [kind |-> "none"]

Resp(op, id, status, detail) ==
    [op |-> op, id |-> id, status |-> status, detail |-> detail]

----------------------------------------------------------------------------
(* calculate_required_materials, main.py:320-387 *)

blend_ratio == 12             \* 1.2, in tenths
single_origin_ratio == 123    \* 1.23, in hundredths

ratios ==
    << [name |-> "Brazil",    ratio |-> 55],
       [name |-> "Colombia",  ratio |-> 20],
       [name |-> "Guatemala", ratio |-> 15],
       [name |-> "Sidamo",    ratio |-> 10] >>

(* the rows of  Material.name == name, Material.type == "single_origin" *)
RawMaterial(name) ==
    {m \in DOMAIN materials :
        materials[m].name = name /\ materials[m].type = "single_origin"}

(* a blend split evenly over the four origins instead of by the fixed ratios *)
BlendRequirement_EqualSplit(quantity) ==
    [i \in 1..Len(ratios) |->
        [id |-> CHOOSE m \in RawMaterial(ratios[i].name) : TRUE,
         quantity |-> quantity * blend_ratio * 25]]

BlendRequirement(quantity) ==
    [i \in 1..Len(ratios) |->
        [id |-> CHOOSE m \in RawMaterial(ratios[i].name) : TRUE,
         quantity |-> quantity * blend_ratio * ratios[i].ratio]]

(* a single-origin order that consumes its own weight, without the yield loss *)
SingleOriginRequirement_NoYield(material_id, quantity) ==
    << [id |-> material_id, quantity |-> quantity * Unit] >>

SingleOriginRequirement(material_id, quantity) ==
    << [id |-> material_id, quantity |-> quantity * single_origin_ratio * 10] >>

(* a regular order that consumes 1.23 times its weight, as a single        *)
(* origin does                                                              *)
RegularRequirement_WithYield(material_id, quantity) ==
    << [id |-> material_id, quantity |-> quantity * single_origin_ratio * 10] >>

RegularRequirement(material_id, quantity) ==
    << [id |-> material_id, quantity |-> quantity * Unit] >>

(* lines 322-367: the expansion, or the error it raises *)
RequiredMaterials(material_id, quantity) ==
    IF material_id \notin DOMAIN materials
    THEN [status |-> 404, detail |-> "material_not_found", required |-> << >>]
    ELSE IF materials[material_id].type = "blend"
    THEN IF \E i \in 1..Len(ratios) : RawMaterial(ratios[i].name) = {}
         THEN [status |-> 400, detail |-> "origin_not_found", required |-> << >>]
         ELSE [status |-> 200, detail |-> "ok",
               required |-> BlendRequirement(quantity)]
    ELSE IF materials[material_id].type = "single_origin"
    THEN [status |-> 200, detail |-> "ok",
          required |-> SingleOriginRequirement(material_id, quantity)]
    ELSE [status |-> 200, detail |-> "ok",
          required |-> RegularRequirement(material_id, quantity)]

(* lines 370-385: the stock check, entry by entry, first failure wins *)
RECURSIVE CheckInventory(_, _)
CheckInventory(required, i) ==
    IF i > Len(required) THEN [status |-> 200, detail |-> "ok"]
    ELSE IF required[i].id \notin DOMAIN inventory
    THEN [status |-> 404, detail |-> "inventory_not_found"]
    ELSE IF inventory[required[i].id] < required[i].quantity
    THEN [status |-> 400, detail |-> "insufficient_stock"]
    ELSE CheckInventory(required, i + 1)

calculate_required_materials(material_id, quantity, check_inventory) ==
    LET r == RequiredMaterials(material_id, quantity)
    IN IF r.status # 200 \/ ~check_inventory THEN r
       ELSE LET c == CheckInventory(r.required, 1)
            IN IF c.status # 200
               THEN [status |-> c.status, detail |-> c.detail, required |-> << >>]
               ELSE r

----------------------------------------------------------------------------
(* update_inventory_quantities, main.py:389-417.  The result is the         *)
(* session's inventory after the loop; any exception inside the loop is     *)
(* answered by db.rollback() and re-raised as a 500.                        *)

RECURSIVE ApplyEntries(_, _, _, _)
ApplyEntries(inv, required, i, multiplier) ==
    IF i > Len(required) THEN [status |-> 200, detail |-> "ok", inventory |-> inv]
    ELSE IF required[i].id \notin DOMAIN inv
    THEN [status |-> 500, detail |-> "inventory_not_found", inventory |-> inventory]
    ELSE LET new_quantity == inv[required[i].id] + required[i].quantity * multiplier
         IN IF new_quantity < 0
            THEN [status |-> 500, detail |-> "insufficient_stock",
                  inventory |-> inventory]
            ELSE ApplyEntries([inv EXCEPT ![required[i].id] = new_quantity],
                              required, i + 1, multiplier)

update_inventory_quantities(required, is_increase) ==
    ApplyEntries(inventory, required, 1, IF is_increase THEN 1 ELSE -1)

----------------------------------------------------------------------------
(* Faults: the step of a handler at which the database driver raises *)

NoFault == "none"
AtCommit == "commit"                 \* the (only or first) db.commit() raises
AfterCommit == "after_commit"        \* a statement after that commit raises

Outcome(status, detail, id) == [status |-> status, detail |-> detail, id |-> id]

----------------------------------------------------------------------------
(* POST /orders/, main.py:419-460 *)

NewOrder(id, customer_name, material_id, quantity, price_per_kg, order_date) ==
    [id |-> id,
     customer_name |-> customer_name,
     material_id |-> material_id,
     material_name |-> materials[material_id].name,
     quantity |-> quantity,
     price_per_kg |-> price_per_kg,
     total_price |-> quantity * price_per_kg,
     order_date |-> order_date]

(* a create_order that writes each requirement entry through as it goes and *)
(* has nothing to roll back when a later entry is short                     *)
RECURSIVE ApplyEntriesWriteThrough(_, _, _)
ApplyEntriesWriteThrough(inv, required, i) ==
    IF i > Len(required) THEN [status |-> 200, detail |-> "ok", inventory |-> inv]
    ELSE IF required[i].id \notin DOMAIN inv
    THEN [status |-> 404, detail |-> "inventory_not_found", inventory |-> inv]
    ELSE IF inv[required[i].id] < required[i].quantity
    THEN [status |-> 400, detail |-> "insufficient_stock", inventory |-> inv]
    ELSE ApplyEntriesWriteThrough(
             [inv EXCEPT ![required[i].id] = @ - required[i].quantity],
             required, i + 1)

create_order_WriteThrough(customer_name, material_id, quantity, price_per_kg, order_date, fault) ==
    LET r == calculate_required_materials(material_id, quantity, FALSE)
        u == ApplyEntriesWriteThrough(inventory, r.required, 1)
    IN IF r.status # 200
       THEN [out |-> Outcome(r.status, r.detail, 0), orders |-> orders,
             inventory |-> inventory, order_id_seq |-> order_id_seq]
       ELSE IF u.status # 200 \/ order_date = BadDate \/ fault = AtCommit
               \/ customer_name \notin customers
       THEN [out |-> Outcome(u.status, u.detail, 0), orders |-> orders,
             inventory |-> u.inventory, order_id_seq |-> order_id_seq]
       ELSE [out |-> Outcome(201, "ok", order_id_seq),
             orders |-> orders \cup
                 {NewOrder(order_id_seq, customer_name, material_id, quantity,
                           price_per_kg, order_date)},
             inventory |-> u.inventory,
             order_id_seq |-> order_id_seq + 1]

create_order(customer_name, material_id, quantity, price_per_kg, order_date, fault) ==
    LET r == calculate_required_materials(material_id, quantity, TRUE)
        u == update_inventory_quantities(r.required, FALSE)
        unchanged == [orders |-> orders, inventory |-> inventory,
                      order_id_seq |-> order_id_seq]
    IN IF r.status # 200
       THEN [out |-> Outcome(r.status, r.detail, 0)] @@ unchanged
       ELSE IF order_date = BadDate            \* strptime raises ValueError
       THEN [out |-> Outcome(500, "invalid_date", 0)] @@ unchanged
       ELSE IF u.status # 200
       THEN [out |-> Outcome(500, u.detail, 0)] @@ unchanged
       ELSE IF fault = AtCommit
       THEN [out |-> Outcome(500, "db_error", 0)] @@ unchanged
       ELSE IF customer_name \notin customers  \* orders.customer_name foreign key
       THEN [out |-> Outcome(500, "integrity_error", 0),
             orders |-> orders, inventory |-> inventory,
             order_id_seq |-> order_id_seq + 1]
       ELSE [out |-> IF fault = AfterCommit    \* db.refresh raises
                     THEN Outcome(500, "db_error", order_id_seq)
                     ELSE Outcome(201, "ok", order_id_seq),
             orders |-> orders \cup
                 {NewOrder(order_id_seq, customer_name, material_id, quantity,
                           price_per_kg, order_date)},
             inventory |-> u.inventory,
             order_id_seq |-> order_id_seq + 1]

CreateOrder ==
    /\ order_id_seq <= MaxOrderId
    /\ \E customer_name \in CustomerNames,
          material_id \in OrderMaterialIds,
          quantity \in OrderQtys,
          price_per_kg \in OrderPrices,
          order_date \in LedgerDates,
          fault \in {NoFault, AtCommit, AfterCommit} :
        LET res == create_order(customer_name, material_id, quantity,
                                price_per_kg, order_date, fault)
        IN /\ orders' = res.orders
           /\ inventory' = res.inventory
           /\ order_id_seq' = res.order_id_seq
           /\ response' = Resp("create_order", res.out.id, res.out.status,
                               res.out.detail)
    /\ inventory_before' = inventory
    /\ UNCHANGED <<processing_ratio, valid_api_keys, sessions, blend_component_id_seq,
                   customers, materials, blend_components, purchases,
                   material_id_seq, purchase_id_seq, report>>

----------------------------------------------------------------------------
(* DELETE /orders/{order_id}, main.py:462-509 *)

(* a delete_order that gives back the ordered quantity itself, unexpanded *)
delete_order_NoExpansion(order_id, fault) ==
    LET found == {o \in orders : o.id = order_id}
        order == CHOOSE o \in found : TRUE
        m == order.material_id
    IN IF found = {} \/ fault = AtCommit \/ m \notin DOMAIN inventory
       THEN [out |-> Outcome(404, "order_not_found", order_id),
             orders |-> orders, inventory |-> inventory]
       ELSE [out |-> Outcome(200, "ok", order_id),
             orders |-> orders \ found,
             inventory |-> [inventory EXCEPT ![m] = @ + order.quantity * Unit]]

delete_order(order_id, fault) ==
    LET found == {o \in orders : o.id = order_id}
        order == CHOOSE o \in found : TRUE
        r == calculate_required_materials(order.material_id, order.quantity, FALSE)
        u == update_inventory_quantities(r.required, TRUE)
        unchanged == [orders |-> orders, inventory |-> inventory]
    IN IF found = {}
       THEN [out |-> Outcome(404, "order_not_found", order_id)] @@ unchanged
       ELSE IF r.status # 200
       THEN [out |-> Outcome(r.status, r.detail, order_id)] @@ unchanged
       ELSE IF u.status # 200
       THEN [out |-> Outcome(500, u.detail, order_id)] @@ unchanged
       ELSE IF fault = AtCommit
       THEN [out |-> Outcome(500, "db_error", order_id)] @@ unchanged
       ELSE [out |-> Outcome(200, "ok", order_id),
             orders |-> orders \ found,
             inventory |-> u.inventory]

DeleteOrder ==
    /\ \E order_id \in 1..MaxOrderId, fault \in {NoFault, AtCommit} :
        LET res == delete_order(order_id, fault)
        IN /\ orders' = res.orders
           /\ inventory' = res.inventory
           /\ response' = Resp("delete_order", res.out.id, res.out.status,
                               res.out.detail)
    /\ inventory_before' = inventory
    /\ UNCHANGED <<processing_ratio, valid_api_keys, sessions, blend_component_id_seq,
                   customers, materials, blend_components, purchases,
                   material_id_seq, order_id_seq, purchase_id_seq, report>>

----------------------------------------------------------------------------
(* POST /materials/, main.py:569-618 *)

DefaultProcessingRatio == 10   \* MaterialBase.processing_ratio = 1.0, in tenths

(* a creation that commits the Material row without its Inventory row *)
create_material_NoInventory(name, type, fault) ==
    LET id == material_id_seq
    IN IF \/ \E m \in DOMAIN materials : materials[m].name = name
          \/ type = "blend"
          \/ fault = AtCommit
       THEN [out |-> Outcome(500, "db_error", 0), materials |-> materials,
             inventory |-> inventory, processing_ratio |-> processing_ratio]
       ELSE [out |-> Outcome(200, "ok", id),
             materials |-> (id :> [name |-> name, type |-> type]) @@ materials,
             inventory |-> inventory,
             processing_ratio |->
                 (id :> DefaultProcessingRatio) @@ processing_ratio]

create_material(name, type, fault) ==
    LET id == material_id_seq
        unchanged == [materials |-> materials, inventory |-> inventory,
                      processing_ratio |-> processing_ratio]
    IN IF \E m \in DOMAIN materials : materials[m].name = name
       THEN \* db.flush(): the unique index on materials.name rejects the insert
            [out |-> Outcome(500, "integrity_error", 0)] @@ unchanged
       ELSE IF type = "blend"
       THEN \* line 588 reads material.components, a field MaterialCreate
            \* (schemas.py:66) does not have: AttributeError
            [out |-> Outcome(500, "attribute_error", 0)] @@ unchanged
       ELSE IF fault = AtCommit
       THEN [out |-> Outcome(500, "db_error", 0)] @@ unchanged
       ELSE [out |-> IF fault = AfterCommit    \* db.refresh raises
                     THEN Outcome(500, "db_error", id)
                     ELSE Outcome(200, "ok", id),
             materials |-> (id :> [name |-> name, type |-> type]) @@ materials,
             inventory |-> (id :> 0) @@ inventory,
             processing_ratio |->
                 (id :> DefaultProcessingRatio) @@ processing_ratio]

CreateMaterial ==
    /\ material_id_seq <= MaxMaterialId
    /\ \E name \in NewMaterialNames, type \in MaterialTypes,
          fault \in {NoFault, AtCommit, AfterCommit} :
        LET res == create_material(name, type, fault)
        IN /\ materials' = res.materials
           /\ inventory' = res.inventory
           /\ processing_ratio' = res.processing_ratio
           /\ response' = Resp("create_material", res.out.id, res.out.status,
                               res.out.detail)
    \* the flush draws a value of materials_id_seq whether or not it commits
    /\ material_id_seq' = material_id_seq + 1
    /\ inventory_before' = inventory
    /\ UNCHANGED <<valid_api_keys, sessions, blend_component_id_seq, customers,
                   blend_components, orders, purchases, order_id_seq,
                   purchase_id_seq, report>>

----------------------------------------------------------------------------
(* POST /material-purchases/, main.py:755-823 *)

NewPurchase(id, material_id, quantity_kg, price_per_kg, purchase_date) ==
    [id |-> id,
     material_id |-> material_id,
     material_name |-> materials[material_id].name,
     quantity_kg |-> quantity_kg,
     price_per_kg |-> price_per_kg,
     total_price |-> quantity_kg * price_per_kg,
     purchase_date |-> purchase_date]

(* a purchase that updates the Inventory row and does nothing when there   *)
(* is none                                                                  *)
UpsertInventory_UpdateOnly(material_id, quantity_kg) ==
    IF material_id \in DOMAIN inventory
    THEN [inventory EXCEPT ![material_id] = @ + quantity_kg * Unit]
    ELSE inventory

(* lines 799-813: update the Inventory row, or create it *)
UpsertInventory(material_id, quantity_kg) ==
    IF material_id \in DOMAIN inventory
    THEN [inventory EXCEPT ![material_id] = @ + quantity_kg * Unit]
    ELSE (material_id :> quantity_kg * Unit) @@ inventory

create_material_purchase(material_id, quantity_kg, price_per_kg, purchase_date, fault) ==
    LET id == purchase_id_seq
        unchanged == [purchases |-> purchases, inventory |-> inventory,
                      purchase_id_seq |-> purchase_id_seq]
        inserted == purchases \cup
                        {NewPurchase(id, material_id, quantity_kg, price_per_kg,
                                     purchase_date)}
    IN IF material_id \notin DOMAIN materials
       THEN \* the 404 is caught by  except Exception  and re-raised as 500
            [out |-> Outcome(500, "material_not_found", 0)] @@ unchanged
       ELSE IF purchase_date = BadDate
       THEN [out |-> Outcome(500, "invalid_date", 0)] @@ unchanged
       ELSE IF fault = AtCommit              \* the commit of line 794 raises
       THEN [out |-> Outcome(500, "db_error", 0)] @@ unchanged
       ELSE IF fault = AfterCommit           \* lines 795-815 raise
       THEN [out |-> Outcome(500, "db_error", id),
             purchases |-> inserted,
             inventory |-> inventory,
             purchase_id_seq |-> purchase_id_seq + 1]
       ELSE [out |-> Outcome(200, "ok", id),
             purchases |-> inserted,
             inventory |-> UpsertInventory(material_id, quantity_kg),
             purchase_id_seq |-> purchase_id_seq + 1]

CreateMaterialPurchase ==
    /\ purchase_id_seq <= MaxPurchaseId
    /\ \E material_id \in PurchaseMaterialIds,
          quantity_kg \in PurchaseQtys,
          price_per_kg \in PurchasePrices,
          purchase_date \in LedgerDates,
          fault \in {NoFault, AtCommit, AfterCommit} :
        LET res == create_material_purchase(material_id, quantity_kg,
                                            price_per_kg, purchase_date, fault)
        IN /\ purchases' = res.purchases
           /\ inventory' = res.inventory
           /\ purchase_id_seq' = res.purchase_id_seq
           /\ response' = Resp("create_material_purchase", res.out.id,
                               res.out.status, res.out.detail)
    /\ inventory_before' = inventory
    /\ UNCHANGED <<processing_ratio, valid_api_keys, sessions, blend_component_id_seq,
                   customers, materials, blend_components, orders,
                   material_id_seq, order_id_seq, report>>

----------------------------------------------------------------------------
(* DELETE /material-purchases/{purchase_id}, main.py:825-847 *)

delete_material_purchase(purchase_id, fault) ==
    LET found == {p \in purchases : p.id = purchase_id}
        db_purchase == CHOOSE p \in found : TRUE
        m == db_purchase.material_id
        unchanged == [purchases |-> purchases, inventory |-> inventory]
    IN IF found = {}
       THEN \* the 404 is caught by  except Exception  and re-raised as 400
            [out |-> Outcome(400, "purchase_not_found", purchase_id)] @@ unchanged
       ELSE IF m \in DOMAIN inventory
               /\ ~(inventory[m] >= db_purchase.quantity_kg * Unit)
       THEN [out |-> Outcome(400, "insufficient_stock", purchase_id)] @@ unchanged
       ELSE IF fault = AtCommit
       THEN [out |-> Outcome(400, "db_error", purchase_id)] @@ unchanged
       ELSE [out |-> Outcome(200, "ok", purchase_id),
             purchases |-> purchases \ found,
             inventory |->
                 IF m \in DOMAIN inventory
                 THEN [inventory EXCEPT ![m] = @ - db_purchase.quantity_kg * Unit]
                 ELSE inventory]

DeleteMaterialPurchase ==
    /\ \E purchase_id \in 1..MaxPurchaseId, fault \in {NoFault, AtCommit} :
        LET res == delete_material_purchase(purchase_id, fault)
        IN /\ purchases' = res.purchases
           /\ inventory' = res.inventory
           /\ response' = Resp("delete_material_purchase", res.out.id,
                               res.out.status, res.out.detail)
    /\ inventory_before' = inventory
    /\ UNCHANGED <<processing_ratio, valid_api_keys, sessions, blend_component_id_seq,
                   customers, materials, blend_components, orders,
                   material_id_seq, order_id_seq, purchase_id_seq, report>>

----------------------------------------------------------------------------
(* DELETE /purchases/{purchase_id}/, main.py:849-864 *)

delete_purchase(purchase_id, fault) ==
    LET found == {p \in purchases : p.id = purchase_id}
        purchase == CHOOSE p \in found : TRUE
        m == purchase.material_id
        unchanged == [purchases |-> purchases, inventory |-> inventory]
    IN IF found = {}
       THEN [out |-> Outcome(404, "purchase_not_found", purchase_id)] @@ unchanged
       ELSE IF fault = AtCommit   \* no handler: the framework answers 500
       THEN [out |-> Outcome(500, "db_error", purchase_id)] @@ unchanged
       ELSE [out |-> Outcome(200, "ok", purchase_id),
             purchases |-> purchases \ found,
             inventory |->
                 IF m \in DOMAIN inventory
                 THEN [inventory EXCEPT
                          ![m] = Max(0, @ - purchase.quantity_kg * Unit)]
                 ELSE inventory]

DeletePurchase ==
    /\ \E purchase_id \in 1..MaxPurchaseId, fault \in {NoFault, AtCommit} :
        LET res == delete_purchase(purchase_id, fault)
        IN /\ purchases' = res.purchases
           /\ inventory' = res.inventory
           /\ response' = Resp("delete_purchase", res.out.id, res.out.status,
                               res.out.detail)
    /\ inventory_before' = inventory
    /\ UNCHANGED <<processing_ratio, valid_api_keys, sessions, blend_component_id_seq,
                   customers, materials, blend_components, orders,
                   material_id_seq, order_id_seq, purchase_id_seq, report>>

----------------------------------------------------------------------------
(* POST /migrate-inventory/, main.py:867-895: every material without an     *)
(* Inventory row gets one with quantity 0, in a single commit               *)

migrate_inventory(fault) ==
    LET missing == DOMAIN materials \ DOMAIN inventory
    IN IF fault = AtCommit
       THEN [out |-> Outcome(500, "db_error", 0), inventory |-> inventory]
       ELSE [out |-> Outcome(200, "ok", Cardinality(missing)),
             inventory |-> [m \in missing |-> 0] @@ inventory]

MigrateInventory ==
    /\ \E fault \in {NoFault, AtCommit} :
        LET res == migrate_inventory(fault)
        IN /\ inventory' = res.inventory
           /\ response' = Resp("migrate_inventory", res.out.id, res.out.status,
                               res.out.detail)
    /\ inventory_before' = inventory
    /\ UNCHANGED <<processing_ratio, valid_api_keys, sessions,
                   blend_component_id_seq, customers, materials,
                   blend_components, orders, purchases, material_id_seq,
                   order_id_seq, purchase_id_seq, report>>

----------------------------------------------------------------------------
(* The stores the service starts from.  Blend materials and materials       *)
(* without an Inventory row cannot be made through POST /materials/; they   *)
(* are rows of the deployed database (bulk_create_orders looks up the       *)
(* blend by name, migrate_inventory exists to add the missing rows), and    *)
(* stock levels are set through PUT /inventories/{id}/quantity/.            *)

SeedFull ==
    [materials |->
        (1 :> [name |-> "Brazil", type |-> "single_origin"]) @@
        (2 :> [name |-> "Colombia", type |-> "single_origin"]) @@
        (3 :> [name |-> "Guatemala", type |-> "single_origin"]) @@
        (4 :> [name |-> "Sidamo", type |-> "single_origin"]) @@
        (5 :> [name |-> "HouseBlend", type |-> "blend"]),
     inventory |->
        (1 :> 100 * Unit) @@ (2 :> 100 * Unit) @@ (3 :> 100 * Unit) @@
        (4 :> 5 * Unit) @@ (5 :> 0),
     material_id_seq |-> 6]

SeedGaps ==
    [materials |->
        (1 :> [name |-> "Brazil", type |-> "single_origin"]) @@
        (2 :> [name |-> "Colombia", type |-> "single_origin"]) @@
        (3 :> [name |-> "Guatemala", type |-> "single_origin"]) @@
        (5 :> [name |-> "HouseBlend", type |-> "blend"]),
     inventory |->
        (1 :> 100 * Unit) @@ (2 :> 100 * Unit) @@ (5 :> 0),
     material_id_seq |-> 6]

Seeds == {SeedFull, SeedGaps}

SeedComponents ==
    {[id |-> 1, blend_id |-> 5, component_id |-> 1, ratio |-> 55],
     [id |-> 2, blend_id |-> 5, component_id |-> 2, ratio |-> 20],
     [id |-> 3, blend_id |-> 5, component_id |-> 3, ratio |-> 15],
     [id |-> 4, blend_id |-> 5, component_id |-> 4, ratio |-> 10]}

Init ==
    /\ \E seed \in Seeds :
        /\ materials = seed.materials
        /\ inventory = seed.inventory
        /\ inventory_before = seed.inventory
        /\ material_id_seq = seed.material_id_seq
        /\ blend_components =
               {c \in SeedComponents : c.component_id \in DOMAIN seed.materials}
    /\ customers = {"Nowon"}
    /\ orders = {}
    /\ purchases = {}
    /\ order_id_seq = 1
    /\ purchase_id_seq = 1
    /\ blend_component_id_seq = 5
    /\ response = Resp("none", 0, 0, "none")
    /\ report = NoReport
    /\ processing_ratio = [m \in DOMAIN materials |-> DefaultProcessingRatio]
    /\ valid_api_keys = {"key-1"}
    /\ sessions = << >>

Next ==
    \/ CreateMaterial
    \/ CreateOrder
    \/ DeleteOrder
    \/ CreateMaterialPurchase
    \/ DeleteMaterialPurchase
    \/ DeletePurchase
    \/ MigrateInventory

Spec == Init /\ [][Next]_vars

----------------------------------------------------------------------------
(* Profit reports.  Two variants of the analytics router exist:             *)
(* src/app/routers/analytics.py, which main.py mounts, and src/analytics.py *)
(* (required window, ?year= for the monthly report).  Dates are integers    *)
(* yyyymmdd; profit_rate is kept to whole percents, rounded down.           *)

NoDate == 0     \* a query parameter that was not supplied

Year(d) == d \div 10000
Month(d) == (d \div 100) % 100

(* get_default_date_range, analytics.py:11-14, on 2025-02-20: 365 days back *)
(* across 29 February 2024                                                  *)
get_default_date_range == << 20240221, 20250220 >>

(* a window that fills in only the bound that is missing *)
Window_PerBound(start_date, end_date) ==
    << IF start_date = NoDate THEN get_default_date_range[1] ELSE start_date,
       IF end_date = NoDate THEN get_default_date_range[2] ELSE end_date >>

(* lines 23-24: either bound missing replaces both *)
Window(start_date, end_date) ==
    IF start_date = NoDate \/ end_date = NoDate
    THEN get_default_date_range
    ELSE << start_date, end_date >>

(* Order.order_date.between(start_date, end_date) *)
OrdersBetween(w) ==
    {o \in orders : w[1] <= o.order_date /\ o.order_date <= w[2]}

(* a join that keeps the orders of blend materials only *)
JoinMaterials_BlendOnly(O) ==
    {o \in O : /\ o.material_id \in DOMAIN materials
               /\ materials[o.material_id].type = "blend"}

(* ... JOIN materials m ON o.material_id = m.id *)
JoinMaterials(O) == {o \in O : o.material_id \in DOMAIN materials}

(* The order in which the store happens to return rows that tie on the sort *)
(* key: a ranking of the purchase rows.                                     *)
Ranks ==
    LET ids == {p.id : p \in purchases}
    IN {r \in [ids -> 1..Cardinality(ids)] :
            \A a, b \in ids : a # b => r[a] # r[b]}

(* a lookup that takes the earliest purchase instead of the latest *)
LatestPurchasePrice_Earliest(material_id, as_of, rank) ==
    LET c == {p \in purchases :
                 p.material_id = material_id /\ p.purchase_date <= as_of}
    IN IF c = {} THEN 0
       ELSE (CHOOSE p \in c : \A q \in c \ {p} :
                \/ p.purchase_date < q.purchase_date
                \/ (p.purchase_date = q.purchase_date /\ rank[p.id] < rank[q.id])
            ).price_per_kg

(* SELECT mp.price_per_kg ... WHERE mp.material_id = o.material_id          *)
(* AND mp.purchase_date <= o.order_date ORDER BY mp.purchase_date DESC      *)
(* LIMIT 1, under COALESCE(..., 0): analytics.py:64-73                      *)
LatestPurchasePrice(material_id, as_of, rank) ==
    LET c == {p \in purchases :
                 p.material_id = material_id /\ p.purchase_date <= as_of}
    IN IF c = {} THEN 0
       ELSE (CHOOSE p \in c : \A q \in c \ {p} :
                \/ p.purchase_date > q.purchase_date
                \/ (p.purchase_date = q.purchase_date /\ rank[p.id] < rank[q.id])
            ).price_per_kg

(* calculate_blending_cost(start_date, end_date): the stored routine the    *)
(* reports call by name.  Per component of the blend, the latest purchase   *)
(* price at or before the end of the period, weighted by the component's    *)
(* ratio (in percent); a component never bought contributes 0.              *)
ComponentContribution(c, as_of, rank) ==
    (LatestPurchasePrice(c.component_id, as_of, rank) * c.ratio) \div 100

(* a rate that rescales the ratios to sum to 1 before weighting *)
BlendingCostOf_Normalised(components, as_of, rank) ==
    LET total_ratio == SumOver(components, [c \in components |-> c.ratio])
    IN IF total_ratio = 0 THEN 0
       ELSE SumOver(components,
                [c \in components |->
                    LatestPurchasePrice(c.component_id, as_of, rank) * c.ratio])
            \div total_ratio

BlendingCostOf(components, as_of, rank) ==
    SumOver(components,
        [c \in components |-> ComponentContribution(c, as_of, rank)])

calculate_blending_cost(w, rank) ==
    BlendingCostOf(blend_components, w[2], rank)

(* a rate guarded against a zero divisor only *)
ProfitRate_NonZeroGuard(profit, total_sales) ==
    IF total_sales # 0 THEN (profit * 100) \div total_sales ELSE 0

(* (profit / total_sales * 100) if total_sales > 0 else 0 *)
ProfitRate(profit, total_sales) ==
    IF total_sales > 0 THEN (profit * 100) \div total_sales ELSE 0

(* a cost CASE that prices the orders of a blend at nothing *)
OrderCost_NoBlend(o, blending_cost, rank) ==
    o.quantity *
        (IF materials[o.material_id].type = "blend"
         THEN 0
         ELSE LatestPurchasePrice(o.material_id, o.order_date, rank))

(* the CASE of the cost queries: analytics.py:198-201, 294-297, 393-396 *)
OrderCost(o, blending_cost, rank) ==
    o.quantity *
        (IF materials[o.material_id].type = "blend"
         THEN blending_cost
         ELSE LatestPurchasePrice(o.material_id, o.order_date, rank))

SumSales(O) == SumOver(O, [o \in O |-> o.total_price])
SumQuantity(O) == SumOver(O, [o \in O |-> o.quantity])
SumCost(O, blending_cost, rank) ==
    SumOver(O, [o \in O |-> OrderCost(o, blending_cost, rank)])

(* the sequences that list the set S once each *)
Listings(S) ==
    {q \in [1..Cardinality(S) -> S] :
        \A i, j \in 1..Cardinality(S) : i # j => q[i] # q[j]}

(* sorted(..., key=profit) without reverse=True *)
SortedByProfitDesc_Ascending(S) ==
    {q \in [1..Cardinality(S) -> S] :
        /\ \A i, j \in 1..Cardinality(S) : i # j => q[i] # q[j]
        /\ \A i \in 1..(Cardinality(S) - 1) : q[i].profit <= q[i + 1].profit}

(* sorted(..., key=profit, reverse=True); the order of ties is the order of *)
(* the rows of the grouping query, which the store does not fix             *)
SortedByProfitDesc(S) ==
    {q \in Listings(S) :
        \A i \in 1..(Cardinality(S) - 1) : q[i].profit >= q[i + 1].profit}

----------------------------------------------------------------------------
(* GET /api/analytics/profit/summary, src/app/routers/analytics.py:16-137 *)

(* lines 102-104, without the closing + 1: the months between the two dates *)
MonthsDiff_Exclusive(w) ==
    (Year(w[2]) - Year(w[1])) * 12 + Month(w[2]) - Month(w[1])

(* lines 102-104 *)
MonthsDiff(w) ==
    (Year(w[2]) - Year(w[1])) * 12 + Month(w[2]) - Month(w[1]) + 1

(* overheads whose total leaves the order boxes out *)
ExtraCosts_NoOrderBoxes(blending_quantity, total_orders, months_diff) ==
    LET packaging_cost == blending_quantity * 1000
        shipping_box_cost == (blending_quantity * 6000) \div 15
        order_box_cost == total_orders * 1000
        rent_cost == months_diff * 650000
    IN [packaging_cost |-> packaging_cost,
        shipping_box_cost |-> shipping_box_cost,
        order_box_cost |-> order_box_cost,
        rent_cost |-> rent_cost,
        extra_costs |-> packaging_cost + shipping_box_cost + rent_cost]

(* lines 97-108 *)
ExtraCosts(blending_quantity, total_orders, months_diff) ==
    LET packaging_cost == blending_quantity * 1000
        shipping_box_cost == (blending_quantity * 6000) \div 15
        order_box_cost == total_orders * 1000
        rent_cost == months_diff * 650000
    IN [packaging_cost |-> packaging_cost,
        shipping_box_cost |-> shipping_box_cost,
        order_box_cost |-> order_box_cost,
        rent_cost |-> rent_cost,
        extra_costs |-> packaging_cost + shipping_box_cost + order_box_cost
                            + rent_cost]

(* a summary whose profit leaves the blend cost out *)
SummaryCards_RegularOnly(total_sales, blending_cost_per_kg, blending_quantity, regular_cost) ==
    LET total_cost == (blending_cost_per_kg * blending_quantity) + regular_cost
        total_profit == total_sales - regular_cost
    IN [sales |-> total_sales, cost |-> total_cost, profit |-> total_profit,
        profit_rate |-> ProfitRate(total_profit, total_sales)]

(* lines 89-94 *)
SummaryCards(total_sales, blending_cost_per_kg, blending_quantity, regular_cost) ==
    LET total_cost == (blending_cost_per_kg * blending_quantity) + regular_cost
        total_profit == total_sales - total_cost
    IN [sales |-> total_sales, cost |-> total_cost, profit |-> total_profit,
        profit_rate |-> ProfitRate(total_profit, total_sales)]

get_profit_summary(start_date, end_date, rank) ==
    LET w == Window(start_date, end_date)
        in_window == OrdersBetween(w)
        total_sales == SumSales(in_window)
        total_quantity == SumQuantity(in_window)
        total_orders == Cardinality(in_window)
        blending_quantity ==
            SumQuantity({o \in JoinMaterials(in_window) :
                            materials[o.material_id].type = "blend"})
        blending_cost_per_kg == calculate_blending_cost(w, rank)
        regular == {o \in JoinMaterials(in_window) :
                       materials[o.material_id].type # "blend"}
        regular_cost ==
            SumOver(regular,
                [o \in regular |->
                    o.quantity
                      * LatestPurchasePrice(o.material_id, o.order_date, rank)])
        cards == SummaryCards(total_sales, blending_cost_per_kg,
                              blending_quantity, regular_cost)
        months_diff == MonthsDiff(w)
        extra == ExtraCosts(blending_quantity, total_orders, months_diff)
        net_profit == cards.profit - extra.extra_costs
    IN [kind |-> "summary", variant |-> "router", window |-> w,
        entries |-> << cards >>,
        net_profit |-> net_profit,
        net_profit_rate |-> ProfitRate(net_profit, total_sales),
        packaging_cost |-> extra.packaging_cost,
        shipping_box_cost |-> extra.shipping_box_cost,
        order_box_cost |-> extra.order_box_cost,
        months_diff |-> months_diff,
        rent_cost |-> extra.rent_cost,
        extra_costs |-> extra.extra_costs]

----------------------------------------------------------------------------
(* GET /api/analytics/profit/by-product, analytics.py:139-239 *)

(* lines 173-204: the rows of the cost query, one per                      *)
(* (material_id, material_name, material_type) of the joined orders         *)
ProductCostKeys(w) ==
    {<<o.material_id, o.material_name>> : o \in JoinMaterials(OrdersBetween(w))}

(* lines 218-221: next(cr for cr in cost_results if cr.material_id ==       *)
(* sale.material_id): which row comes first is the store's choice           *)
CostRowChoices(w) ==
    LET sale_keys == {<<o.material_id, o.material_name>> : o \in OrdersBetween(w)}
    IN {f \in [sale_keys -> ProductCostKeys(w) \cup {<<NoDate, "none">>}] :
          \A k \in sale_keys :
            IF \E c \in ProductCostKeys(w) : c[1] = k[1]
            THEN f[k] \in ProductCostKeys(w) /\ f[k][1] = k[1]
            ELSE f[k] = <<NoDate, "none">>}

(* lines 206-235: one entry per group of the sales query *)
ProductEntries(w, rank, first) ==
    LET in_window == OrdersBetween(w)
        blending_cost_per_kg == calculate_blending_cost(w, rank)
    IN { LET group == {o \in in_window :
                          <<o.material_id, o.material_name>> = k}
             cost_group == {o \in JoinMaterials(in_window) :
                               <<o.material_id, o.material_name>> = first[k]}
             total_cost == SumCost(cost_group, blending_cost_per_kg, rank)
             total_sales == SumSales(group)
             profit == total_sales - total_cost
         IN [material_id |-> k[1], material_name |-> k[2],
             quantity |-> SumQuantity(group),
             sales |-> total_sales, cost |-> total_cost, profit |-> profit,
             profit_rate |-> ProfitRate(profit, total_sales)]
         : k \in DOMAIN first }

get_product_profits(start_date, end_date, rank) ==
    LET w == Window(start_date, end_date)
    IN UNION { {[kind |-> "by_product", variant |-> "router", window |-> w,
                 entries |-> q] :
                    q \in SortedByProfitDesc(ProductEntries(w, rank, first))}
               : first \in CostRowChoices(w) }

----------------------------------------------------------------------------
(* GET /api/analytics/profit/by-customer, analytics.py:241-333 *)

CustomerEntries(w, rank) ==
    LET in_window == OrdersBetween(w)
        blending_cost_per_kg == calculate_blending_cost(w, rank)
        sale_keys == {o.customer_name : o \in in_window}
    IN { LET group == {o \in in_window : o.customer_name = k}
             total_cost == SumCost(JoinMaterials(group), blending_cost_per_kg, rank)
             total_sales == SumSales(group)
             profit == total_sales - total_cost
         IN [customer_name |-> k,
             sales |-> total_sales, cost |-> total_cost, profit |-> profit,
             profit_rate |-> ProfitRate(profit, total_sales)]
         : k \in sale_keys }

get_customer_profits(start_date, end_date, rank) ==
    LET w == Window(start_date, end_date)
    IN {[kind |-> "by_customer", variant |-> "router", window |-> w,
         entries |-> q] : q \in SortedByProfitDesc(CustomerEntries(w, rank))}

----------------------------------------------------------------------------
(* GET /api/analytics/profit/monthly, analytics.py:335-436 *)

(* a monthly report grouped by the month number alone *)
MonthlyEntries_ByMonthNumber(w, rank) ==
    LET in_window == OrdersBetween(w)
        blending_cost_per_kg == calculate_blending_cost(w, rank)
        sale_keys == {Month(o.order_date) : o \in in_window}
    IN { LET group == {o \in in_window : Month(o.order_date) = k}
             total_cost == SumCost(JoinMaterials(group), blending_cost_per_kg, rank)
             total_sales == SumSales(group)
             profit == total_sales - total_cost
         IN [year |-> Year((CHOOSE o \in group : TRUE).order_date), month |-> k,
             sales |-> total_sales, cost |-> total_cost, profit |-> profit,
             profit_rate |-> ProfitRate(profit, total_sales),
             quantity |-> SumQuantity(group)]
         : k \in sale_keys }

MonthlyEntries(w, rank) ==
    LET in_window == OrdersBetween(w)
        blending_cost_per_kg == calculate_blending_cost(w, rank)
        sale_keys == {<<Year(o.order_date), Month(o.order_date)>> : o \in in_window}
    IN { LET group == {o \in in_window :
                          <<Year(o.order_date), Month(o.order_date)>> = k}
             total_cost == SumCost(JoinMaterials(group), blending_cost_per_kg, rank)
             total_sales == SumSales(group)
             profit == total_sales - total_cost
         IN [year |-> k[1], month |-> k[2],
             sales |-> total_sales, cost |-> total_cost, profit |-> profit,
             profit_rate |-> ProfitRate(profit, total_sales),
             quantity |-> SumQuantity(group)]
         : k \in sale_keys }

(* sorted(monthly_profits, key=lambda x: (x["year"], x["month"])) *)
SortedByMonth(S) ==
    {q \in Listings(S) :
        \A i \in 1..(Cardinality(S) - 1) :
            q[i].year * 100 + q[i].month <= q[i + 1].year * 100 + q[i + 1].month}

get_monthly_profits(start_date, end_date, rank) ==
    LET w == Window(start_date, end_date)
    IN {[kind |-> "monthly", variant |-> "router", window |-> w,
         entries |-> q] : q \in SortedByMonth(MonthlyEntries(w, rank))}

----------------------------------------------------------------------------
(* src/analytics.py: the reports with the cost query                        *)
(*   orders o LEFT JOIN material_purchases mp                               *)
(*     ON o.material_id = mp.material_id AND mp.purchase_date <= o.order_date *)
(*   SUM(order_quantity * COALESCE(price_per_kg, 0))                        *)
(* One row per (order, earlier purchase) pair; an order without an earlier  *)
(* purchase gives one row with a NULL price.                                *)

LeftJoinCost(O) ==
    SumOver(O,
        [o \in O |->
            LET c == {p \in purchases :
                         p.material_id = o.material_id
                         /\ p.purchase_date <= o.order_date}
            IN SumOver(c, [p \in c |-> o.quantity * p.price_per_kg])])

(* src/analytics.py:11-67 *)
legacy_get_profit_summary(start_date, end_date) ==
    LET w == << start_date, end_date >>
        in_window == OrdersBetween(w)
        total_sales == SumSales(in_window)
        total_cost == LeftJoinCost(in_window)
        total_profit == total_sales - total_cost
    IN [kind |-> "summary", variant |-> "legacy", window |-> w,
        entries |-> << [sales |-> total_sales, cost |-> total_cost,
                        profit |-> total_profit,
                        profit_rate |-> ProfitRate(total_profit, total_sales)] >>,
        total_quantity |-> SumQuantity(in_window)]

(* src/analytics.py:69-141; the cost rows are grouped by (material_id,      *)
(* material_name) and looked up by material_id                              *)
LegacyProductEntries(w, first) ==
    LET in_window == OrdersBetween(w)
    IN { LET group == {o \in in_window :
                          <<o.material_id, o.material_name>> = k}
             cost_group == {o \in in_window :
                               <<o.material_id, o.material_name>> = first[k]}
             total_cost == LeftJoinCost(cost_group)
             total_sales == SumSales(group)
             profit == total_sales - total_cost
         IN [material_id |-> k[1], material_name |-> k[2],
             quantity |-> SumQuantity(group),
             sales |-> total_sales, cost |-> total_cost, profit |-> profit,
             profit_rate |-> ProfitRate(profit, total_sales)]
         : k \in DOMAIN first }

LegacyCostRowChoices(w) ==
    LET keys == {<<o.material_id, o.material_name>> : o \in OrdersBetween(w)}
    IN {f \in [keys -> keys] : \A k \in keys : f[k][1] = k[1]}

legacy_get_product_profits(start_date, end_date) ==
    LET w == << start_date, end_date >>
    IN UNION { {[kind |-> "by_product", variant |-> "legacy", window |-> w,
                 entries |-> q] :
                    q \in SortedByProfitDesc(LegacyProductEntries(w, first))}
               : first \in LegacyCostRowChoices(w) }

(* src/analytics.py:143-208 *)
LegacyCustomerEntries(w) ==
    LET in_window == OrdersBetween(w)
    IN { LET group == {o \in in_window : o.customer_name = k}
             total_cost == LeftJoinCost(group)
             total_sales == SumSales(group)
             profit == total_sales - total_cost
         IN [customer_name |-> k,
             sales |-> total_sales, cost |-> total_cost, profit |-> profit,
             profit_rate |-> ProfitRate(profit, total_sales)]
         : k \in {o.customer_name : o \in in_window} }

legacy_get_customer_profits(start_date, end_date) ==
    LET w == << start_date, end_date >>
    IN {[kind |-> "by_customer", variant |-> "legacy", window |-> w,
         entries |-> q] : q \in SortedByProfitDesc(LegacyCustomerEntries(w))}

(* src/analytics.py:210-278: the window is the calendar year, the groups    *)
(* are the month numbers                                                    *)
LegacyMonthlyEntries(w) ==
    LET in_window == OrdersBetween(w)
    IN { LET group == {o \in in_window : Month(o.order_date) = k}
             total_cost == LeftJoinCost(group)
             total_sales == SumSales(group)
             profit == total_sales - total_cost
         IN [month |-> k,
             sales |-> total_sales, cost |-> total_cost, profit |-> profit,
             profit_rate |-> ProfitRate(profit, total_sales)]
         : k \in {Month(o.order_date) : o \in in_window} }

legacy_get_monthly_profits(year) ==
    LET w == << year * 10000 + 101, year * 10000 + 1231 >>
    IN {[kind |-> "monthly", variant |-> "legacy", window |-> w,
         entries |-> q] :
            q \in {l \in Listings(LegacyMonthlyEntries(w)) :
                     \A i \in 1..(Len(l) - 1) : l[i].month <= l[i + 1].month}}

----------------------------------------------------------------------------
(* The data sets the reports are run on: up to two orders and up to two     *)
(* purchases over the stocked catalogue, chosen so that a purchase can fall *)
(* before, on and after an order's date, two purchases of one material can  *)
(* share a date, and an order can have zero or negative sales.              *)

ReportOrder1 ==
    {[id |-> 1, customer_name |-> "Nowon", material_id |-> 2,
      material_name |-> "Colombia", quantity |-> 50, price_per_kg |-> pr,
      total_price |-> 50 * pr, order_date |-> d] :
        pr \in {0, 20000}, d \in {20240210, 20240220}}

ReportOrder2 ==
    {[id |-> 2, customer_name |-> c, material_id |-> m,
      material_name |-> SeedFull.materials[m].name, quantity |-> q,
      price_per_kg |-> 15000, total_price |-> q * 15000, order_date |-> d] :
        c \in {"Nowon", "Dobu"}, m \in {2, 5}, q \in {-10, 30},
        d \in {20240220, 20250210}}

ReportPurchase1 ==
    {[id |-> 1, material_id |-> 2, material_name |-> "Colombia",
      quantity_kg |-> 100, price_per_kg |-> 10000, total_price |-> 1000000,
      purchase_date |-> d] : d \in {20240105, 20240210}}

ReportPurchase2 ==
    {[id |-> 2, material_id |-> m, material_name |-> SeedFull.materials[m].name,
      quantity_kg |-> 100, price_per_kg |-> 12000, total_price |-> 1200000,
      purchase_date |-> d] : m \in {1, 2}, d \in {20240210, 20240301}}

AtMostOne(S) == {{}} \cup {{x} : x \in S}

(* The BlendComponent rows of the blend: the seeded recipe, and one a       *)
(* PUT /materials/5/components has left, with ratios that do not sum to 1   *)
(* and a component listed twice.                                            *)
ReportComponents ==
    {SeedComponents,
     {[id |-> 5, blend_id |-> 5, component_id |-> 1, ratio |-> 110],
      [id |-> 6, blend_id |-> 5, component_id |-> 2, ratio |-> 20],
      [id |-> 7, blend_id |-> 5, component_id |-> 2, ratio |-> 20]}}

InitReport ==
    /\ customers = {"Nowon", "Dobu"}
    /\ materials = SeedFull.materials
    /\ inventory = SeedFull.inventory
    /\ inventory_before = SeedFull.inventory
    /\ \E rows \in ReportComponents :
          /\ blend_components = rows
          /\ blend_component_id_seq = 5 + Cardinality(rows \ SeedComponents)
    /\ \E o1 \in AtMostOne(ReportOrder1), o2 \in AtMostOne(ReportOrder2) :
          orders = o1 \cup o2
    /\ \E p1 \in AtMostOne(ReportPurchase1), p2 \in AtMostOne(ReportPurchase2) :
          purchases = p1 \cup p2
    /\ material_id_seq = 6
    /\ order_id_seq = 3
    /\ purchase_id_seq = 3
    /\ response = Resp("none", 0, 0, "none")
    /\ report = NoReport
    /\ processing_ratio = [m \in DOMAIN materials |-> DefaultProcessingRatio]
    /\ valid_api_keys = {"key-1"}
    /\ sessions = << >>

StartDates == {NoDate, 20240101, 20240201}
EndDates == {NoDate, 20240115, 20241231, 20250228}
ReportYears == {2024, 2025}

(* A report reads the store and leaves it as it was, so every answer over a *)
(* data set is the answer to the first request over it: one request is     *)
(* followed per behaviour.                                                  *)
Answer(results, request) ==
    /\ report = NoReport
    /\ \E r \in results : report' = r @@ [request |-> request]
    /\ UNCHANGED <<processing_ratio, valid_api_keys, sessions, blend_component_id_seq,
                   customers, materials, blend_components, inventory, orders,
                   purchases, material_id_seq, order_id_seq, purchase_id_seq,
                   response, inventory_before>>

ProfitSummary ==
    \E start_date \in StartDates, end_date \in EndDates, rank \in Ranks :
        Answer({get_profit_summary(start_date, end_date, rank)},
               << start_date, end_date >>)

ProductProfits ==
    \E start_date \in StartDates, end_date \in EndDates, rank \in Ranks :
        Answer(get_product_profits(start_date, end_date, rank),
               << start_date, end_date >>)

CustomerProfits ==
    \E start_date \in StartDates, end_date \in EndDates, rank \in Ranks :
        Answer(get_customer_profits(start_date, end_date, rank),
               << start_date, end_date >>)

MonthlyProfits ==
    \E start_date \in StartDates, end_date \in EndDates, rank \in Ranks :
        Answer(get_monthly_profits(start_date, end_date, rank),
               << start_date, end_date >>)

LegacyProfitSummary ==
    \E start_date \in StartDates \ {NoDate}, end_date \in EndDates \ {NoDate} :
        Answer({legacy_get_profit_summary(start_date, end_date)},
               << start_date, end_date >>)

LegacyProductProfits ==
    \E start_date \in StartDates \ {NoDate}, end_date \in EndDates \ {NoDate} :
        Answer(legacy_get_product_profits(start_date, end_date),
               << start_date, end_date >>)

LegacyCustomerProfits ==
    \E start_date \in StartDates \ {NoDate}, end_date \in EndDates \ {NoDate} :
        Answer(legacy_get_customer_profits(start_date, end_date),
               << start_date, end_date >>)

LegacyMonthlyProfits ==
    \E year \in ReportYears :
        Answer(legacy_get_monthly_profits(year), << year >>)

NextReport ==
    \/ ProfitSummary
    \/ ProductProfits
    \/ CustomerProfits
    \/ MonthlyProfits
    \/ LegacyProfitSummary
    \/ LegacyProductProfits
    \/ LegacyCustomerProfits
    \/ LegacyMonthlyProfits

SpecReport == InitReport /\ [][NextReport]_vars

----------------------------------------------------------------------------
(* The catalogue: customers, materials and blend recipes *)

MaxBlendComponentId == 8    \* blend_components_id_seq stops here

NoField == "absent"         \* a key the request body does not have

NewCustomerNames == {"Nowon", "Ghost"}
DeletedCustomerNames == {"Dobu", "Ghost"}
UpdatedMaterialIds == {5, UnknownId}
UpdateTypes == {NoField, "regular", "blending", "single", "blend", "single_origin"}
UpdateRatios == {NoField, "1.1", "abc"}
RecipeMaterialIds == {2, 5, UnknownId}
ComponentLists ==
    { << >>,
      << [component_id |-> 1, ratio |-> 60], [component_id |-> 2, ratio |-> 40] >>,
      << [component_id |-> 1, ratio |-> 50], [component_id |-> 1, ratio |-> 50] >>,
      << [component_id |-> 1, ratio |-> 100],
         [component_id |-> UnknownId, ratio |-> 10] >> }

(* a creation that leaves the duplicate to the unique index on             *)
(* customers.name: the commit fails and the answer is the catch-all 500     *)
create_customer_NoLookup(name, fault) ==
    IF name \in customers
    THEN [out |-> Outcome(500, "integrity_error", 0), customers |-> customers]
    ELSE IF fault = AtCommit
    THEN [out |-> Outcome(500, "db_error", 0), customers |-> customers]
    ELSE [out |-> Outcome(200, "ok", 0), customers |-> customers \cup {name}]

(* POST /customers/, main.py:124-165.  customers.name is unique             *)
(* (models.py:21): the rows are the set of their names.                     *)
create_customer(name, fault) ==
    IF name \in customers
    THEN [out |-> Outcome(400, "customer_exists", 0), customers |-> customers]
    ELSE IF fault = AtCommit
    THEN [out |-> Outcome(500, "db_error", 0), customers |-> customers]
    ELSE [out |-> Outcome(200, "ok", 0), customers |-> customers \cup {name}]

CreateCustomer ==
    /\ \E name \in NewCustomerNames, fault \in {NoFault, AtCommit} :
        LET res == create_customer(name, fault)
        IN /\ customers' = res.customers
           /\ response' = Resp("create_customer", res.out.id, res.out.status,
                               res.out.detail) @@ [name |-> name]
    /\ inventory_before' = inventory
    /\ UNCHANGED <<processing_ratio, valid_api_keys, sessions, materials,
                   blend_components, blend_component_id_seq,
                   inventory, orders, purchases, material_id_seq, order_id_seq,
                   purchase_id_seq, report>>

(* a delete that removes the customer row and leaves its orders behind *)
delete_customer_NoCascade(name, fault) ==
    IF name \notin customers
    THEN [out |-> Outcome(500, "customer_not_found", 0),
          customers |-> customers, orders |-> orders]
    ELSE IF fault = AtCommit
    THEN [out |-> Outcome(500, "db_error", 0),
          customers |-> customers, orders |-> orders]
    ELSE [out |-> Outcome(200, "ok", 0),
          customers |-> customers \ {name}, orders |-> orders]

(* DELETE /customers/{name}, main.py:167-179.  The 404 is raised inside the *)
(* try and caught by  except Exception : the answer is a 500.  db.delete    *)
(* cascades to Customer.orders (models.py:23); no inventory is given back.  *)
delete_customer(name, fault) ==
    IF name \notin customers
    THEN [out |-> Outcome(500, "customer_not_found", 0),
          customers |-> customers, orders |-> orders]
    ELSE IF fault = AtCommit
    THEN [out |-> Outcome(500, "db_error", 0),
          customers |-> customers, orders |-> orders]
    ELSE [out |-> Outcome(200, "ok", 0),
          customers |-> customers \ {name},
          orders |-> {o \in orders : o.customer_name # name}]

DeleteCustomer ==
    /\ \E name \in DeletedCustomerNames, fault \in {NoFault, AtCommit} :
        LET res == delete_customer(name, fault)
        IN /\ customers' = res.customers
           /\ orders' = res.orders
           /\ response' = Resp("delete_customer", res.out.id, res.out.status,
                               res.out.detail)
    /\ inventory_before' = inventory
    /\ UNCHANGED <<processing_ratio, valid_api_keys, sessions, materials,
                   blend_components, blend_component_id_seq,
                   inventory, purchases, material_id_seq, order_id_seq,
                   purchase_id_seq, report>>

(* the rows inserted for the list, with ids drawn from the sequence *)
NewComponents(material_id, components) ==
    {[id |-> blend_component_id_seq + i - 1,
      blend_id |-> material_id,
      component_id |-> components[i].component_id,
      ratio |-> components[i].ratio] : i \in 1..Len(components)}

(* an update that adds the list to the rows the blend already has *)
update_blend_components_Append(material_id, components, fault) ==
    IF \/ material_id \notin DOMAIN materials
       \/ materials[material_id].type # "blend"
       \/ fault = AtCommit
       \/ \E i \in 1..Len(components) :
             components[i].component_id \notin DOMAIN materials
    THEN [out |-> Outcome(500, "rejected", material_id),
          blend_components |-> blend_components, drawn |-> {0}]
    ELSE [out |-> Outcome(200, "ok", material_id),
          blend_components |->
              blend_components \cup NewComponents(material_id, components),
          drawn |-> {Len(components)}]

(* PUT /materials/{material_id}/components, main.py:639-673.  drawn is the  *)
(* number of sequence values the request may have used up: all of the list  *)
(* when it commits, and any prefix of it when the flush or the commit fails *)
(* (a component_id that is no material violates the foreign key).           *)
update_blend_components(material_id, components, fault) ==
    LET unchanged == [blend_components |-> blend_components]
    IN IF material_id \notin DOMAIN materials
       THEN [out |-> Outcome(500, "material_not_found", material_id),
             drawn |-> {0}] @@ unchanged
       ELSE IF materials[material_id].type # "blend"
       THEN [out |-> Outcome(500, "not_blend", material_id),
             drawn |-> {0}] @@ unchanged
       ELSE IF \E i \in 1..Len(components) :
                  components[i].component_id \notin DOMAIN materials
       THEN [out |-> Outcome(500, "integrity_error", material_id),
             drawn |-> 1..Len(components)] @@ unchanged
       ELSE IF fault = AtCommit
       THEN [out |-> Outcome(500, "db_error", material_id),
             drawn |-> 0..Len(components)] @@ unchanged
       ELSE [out |-> Outcome(200, "ok", material_id),
             blend_components |->
                 {c \in blend_components : c.blend_id # material_id}
                     \cup NewComponents(material_id, components),
             drawn |-> {Len(components)}]

UpdateBlendComponents ==
    /\ \E material_id \in RecipeMaterialIds, components \in ComponentLists,
          fault \in {NoFault, AtCommit} :
        /\ blend_component_id_seq + Len(components) - 1 <= MaxBlendComponentId
        /\ LET res == update_blend_components(material_id, components, fault)
           IN /\ blend_components' = res.blend_components
              /\ \E n \in res.drawn :
                    blend_component_id_seq' = blend_component_id_seq + n
              /\ response' = Resp("update_blend_components", res.out.id,
                                  res.out.status, res.out.detail)
                                 @@ [components |-> components]
    /\ inventory_before' = inventory
    /\ UNCHANGED <<processing_ratio, valid_api_keys, sessions, customers, materials,
                   inventory, orders, purchases,
                   material_id_seq, order_id_seq, purchase_id_seq, report>>

(* PUT /materials/{material_id}/, main.py:675-705.  The 404 and the 400 of  *)
(* the type check are raised inside the try and answered as 500 by          *)
(* except Exception ; float() of a malformed processing_ratio is a          *)
(* ValueError, answered as 400.                                             *)
ParseRatio(value) == IF value = "1.1" THEN 11 ELSE DefaultProcessingRatio

update_material(material_id, material_type, ratio, fault) ==
    LET valid_types == {"regular", "blending", "single"}
        unchanged == [materials |-> materials,
                      processing_ratio |-> processing_ratio]
    IN IF material_id \notin DOMAIN materials
       THEN [out |-> Outcome(500, "material_not_found", material_id)] @@ unchanged
       ELSE IF material_type # NoField /\ material_type \notin valid_types
       THEN [out |-> Outcome(500, "invalid_type", material_id)] @@ unchanged
       ELSE IF ratio = "abc"
       THEN [out |-> Outcome(400, "invalid_value", material_id)] @@ unchanged
       ELSE IF fault = AtCommit
       THEN [out |-> Outcome(500, "db_error", material_id)] @@ unchanged
       ELSE [out |-> Outcome(200, "ok", material_id),
             materials |->
                 IF material_type = NoField THEN materials
                 ELSE [materials EXCEPT ![material_id].type = material_type],
             processing_ratio |->
                 IF ratio = NoField THEN processing_ratio
                 ELSE [processing_ratio EXCEPT ![material_id] = ParseRatio(ratio)]]

UpdateMaterial ==
    /\ \E material_id \in UpdatedMaterialIds, material_type \in UpdateTypes,
          ratio \in UpdateRatios, fault \in {NoFault, AtCommit} :
        LET res == update_material(material_id, material_type, ratio, fault)
        IN /\ materials' = res.materials
           /\ processing_ratio' = res.processing_ratio
           /\ response' = Resp("update_material", res.out.id, res.out.status,
                               res.out.detail)
                              @@ [material_type |-> material_type]
    /\ inventory_before' = inventory
    /\ UNCHANGED <<valid_api_keys, sessions, customers, blend_components,
                   blend_component_id_seq, inventory, orders, purchases,
                   material_id_seq, order_id_seq, purchase_id_seq, report>>

RatioMaterialIds == {5, UnknownId}
RatioValues == {12, 15}
InventoryIds == {2, UnknownId}
InventoryQuantities == {0}

(* PUT /materials/{material_id}/ratio/, main.py:707-722 *)
update_material_ratio(material_id, ratio, fault) ==
    IF material_id \notin DOMAIN materials
    THEN \* the 404 is caught by  except Exception  and re-raised as 500
         [out |-> Outcome(500, "material_not_found", material_id),
          processing_ratio |-> processing_ratio]
    ELSE IF fault = AtCommit
    THEN [out |-> Outcome(500, "db_error", material_id),
          processing_ratio |-> processing_ratio]
    ELSE [out |-> Outcome(200, "ok", material_id),
          processing_ratio |-> [processing_ratio EXCEPT ![material_id] = ratio]]

UpdateMaterialRatio ==
    /\ \E material_id \in RatioMaterialIds, ratio \in RatioValues,
          fault \in {NoFault, AtCommit} :
        LET res == update_material_ratio(material_id, ratio, fault)
        IN /\ processing_ratio' = res.processing_ratio
           /\ response' = Resp("update_material_ratio", res.out.id,
                               res.out.status, res.out.detail)
    /\ inventory_before' = inventory
    /\ UNCHANGED <<valid_api_keys, sessions, customers, materials,
                   blend_components, blend_component_id_seq, inventory, orders,
                   purchases, material_id_seq, order_id_seq, purchase_id_seq,
                   report>>

(* PUT /api/materials/{material_id}/ratio/, main.py:724-739: the same body  *)
(* under a second path                                                      *)
update_material_ratio_api(material_id, ratio, fault) ==
    IF material_id \notin DOMAIN materials
    THEN [out |-> Outcome(500, "material_not_found", material_id),
          processing_ratio |-> processing_ratio]
    ELSE IF fault = AtCommit
    THEN [out |-> Outcome(500, "db_error", material_id),
          processing_ratio |-> processing_ratio]
    ELSE [out |-> Outcome(200, "ok", material_id),
          processing_ratio |-> [processing_ratio EXCEPT ![material_id] = ratio]]

UpdateMaterialRatioApi ==
    /\ \E material_id \in RatioMaterialIds, ratio \in RatioValues,
          fault \in {NoFault, AtCommit} :
        LET res == update_material_ratio_api(material_id, ratio, fault)
        IN /\ processing_ratio' = res.processing_ratio
           /\ response' = Resp("update_material_ratio_api", res.out.id,
                               res.out.status, res.out.detail)
    /\ inventory_before' = inventory
    /\ UNCHANGED <<valid_api_keys, sessions, customers, materials,
                   blend_components, blend_component_id_seq, inventory, orders,
                   purchases, material_id_seq, order_id_seq, purchase_id_seq,
                   report>>

(* PUT /inventories/{inventory_id}/quantity/, main.py:907-922.  An          *)
(* Inventory row is named here by the material it belongs to (material_id   *)
(* is unique, models.py:87); the quantity is in kg.                         *)
update_inventory_quantity(inventory_id, quantity, fault) ==
    IF inventory_id \notin DOMAIN inventory
    THEN \* the 404 is caught by  except Exception  and re-raised as 500
         [out |-> Outcome(500, "inventory_not_found", inventory_id),
          inventory |-> inventory]
    ELSE IF fault = AtCommit
    THEN [out |-> Outcome(500, "db_error", inventory_id),
          inventory |-> inventory]
    ELSE [out |-> Outcome(200, "ok", inventory_id),
          inventory |-> [inventory EXCEPT ![inventory_id] = quantity * Unit]]

UpdateInventoryQuantity ==
    /\ \E inventory_id \in InventoryIds, quantity \in InventoryQuantities,
          fault \in {NoFault, AtCommit} :
        LET res == update_inventory_quantity(inventory_id, quantity, fault)
        IN /\ inventory' = res.inventory
           /\ response' = Resp("update_inventory_quantity", res.out.id,
                               res.out.status, res.out.detail)
    /\ inventory_before' = inventory
    /\ UNCHANGED <<processing_ratio, valid_api_keys, sessions, customers,
                   materials, blend_components, blend_component_id_seq, orders,
                   purchases, material_id_seq, order_id_seq, purchase_id_seq,
                   report>>

(* POST /bulk-create-orders/, main.py:924-1043.  orders_data is cut down to *)
(* two rows, one of them for a customer the store may not have;             *)
(* "HouseBlend" stands for the material name of line 1012.                  *)
MaxBulkOrderId == 5     \* orders_id_seq stops here for bulk creation

orders_data ==
    << [customer_name |-> "Nowon", order_date |-> 20240103, quantity |-> 30,
        price_per_kg |-> 23000],
       [customer_name |-> "Gaudi", order_date |-> 20240213, quantity |-> 4,
        price_per_kg |-> 23000] >>

bulk_create_orders(fault) ==
    LET found == {m \in DOMAIN materials : materials[m].name = "HouseBlend"}
        material == CHOOSE m \in found : TRUE
        unchanged == [customers |-> customers, orders |-> orders,
                      order_id_seq |-> order_id_seq]
    IN IF found = {}
       THEN \* the 404 is caught by  except Exception  and re-raised as 400
            [out |-> Outcome(400, "material_not_found", 0)] @@ unchanged
       ELSE IF fault = AtCommit
       THEN [out |-> Outcome(400, "db_error", 0),
             customers |-> customers, orders |-> orders,
             order_id_seq |-> order_id_seq + Len(orders_data)]
       ELSE [out |-> Outcome(200, "ok", 0),
             customers |-> customers \cup
                 {orders_data[i].customer_name : i \in 1..Len(orders_data)},
             orders |-> orders \cup
                 {NewOrder(order_id_seq + i - 1, orders_data[i].customer_name,
                           material, orders_data[i].quantity,
                           orders_data[i].price_per_kg,
                           orders_data[i].order_date) :
                      i \in 1..Len(orders_data)},
             order_id_seq |-> order_id_seq + Len(orders_data)]

BulkCreateOrders ==
    /\ order_id_seq + Len(orders_data) - 1 <= MaxBulkOrderId
    /\ \E fault \in {NoFault, AtCommit} :
        LET res == bulk_create_orders(fault)
        IN /\ customers' = res.customers
           /\ orders' = res.orders
           /\ order_id_seq' = res.order_id_seq
           /\ response' = Resp("bulk_create_orders", res.out.id, res.out.status,
                               res.out.detail)
    /\ inventory_before' = inventory
    /\ UNCHANGED <<processing_ratio, valid_api_keys, sessions, materials,
                   blend_components, blend_component_id_seq, inventory,
                   purchases, material_id_seq, purchase_id_seq, report>>

(* The store the catalogue requests start from: two customers with an order *)
(* each, and a second blend with a recipe of its own.                       *)
SeedCatalog ==
    [materials |->
        (1 :> [name |-> "Brazil", type |-> "single_origin"]) @@
        (2 :> [name |-> "Colombia", type |-> "single_origin"]) @@
        (3 :> [name |-> "Guatemala", type |-> "single_origin"]) @@
        (4 :> [name |-> "SeasonBlend", type |-> "blend"]) @@
        (5 :> [name |-> "HouseBlend", type |-> "blend"]),
     inventory |->
        (1 :> 100 * Unit) @@ (2 :> 100 * Unit) @@ (3 :> 100 * Unit) @@
        (4 :> 0) @@ (5 :> 0),
     blend_components |->
        {[id |-> 1, blend_id |-> 5, component_id |-> 1, ratio |-> 55],
         [id |-> 2, blend_id |-> 5, component_id |-> 2, ratio |-> 45],
         [id |-> 3, blend_id |-> 4, component_id |-> 2, ratio |-> 50],
         [id |-> 4, blend_id |-> 4, component_id |-> 3, ratio |-> 50]},
     orders |->
        {[id |-> 1, customer_name |-> "Nowon", material_id |-> 2,
          material_name |-> "Colombia", quantity |-> 10, price_per_kg |-> 15000,
          total_price |-> 150000, order_date |-> 20240201],
         [id |-> 2, customer_name |-> "Dobu", material_id |-> 2,
          material_name |-> "Colombia", quantity |-> 10, price_per_kg |-> 15000,
          total_price |-> 150000, order_date |-> 20240201],
         [id |-> 3, customer_name |-> "Dobu", material_id |-> 1,
          material_name |-> "Brazil", quantity |-> 50, price_per_kg |-> 15000,
          total_price |-> 750000, order_date |-> 20240201]}]

CatalogStore ==
    /\ customers = {"Nowon", "Dobu"}
    /\ materials = SeedCatalog.materials
    /\ inventory = SeedCatalog.inventory
    /\ inventory_before = SeedCatalog.inventory
    /\ blend_components = SeedCatalog.blend_components
    /\ blend_component_id_seq = 5
    /\ orders = SeedCatalog.orders
    /\ purchases = {}
    /\ material_id_seq = 6
    /\ order_id_seq = 4
    /\ purchase_id_seq = 1
    /\ response = Resp("none", 0, 0, "none")
    /\ report = NoReport
    /\ processing_ratio = [m \in DOMAIN materials |-> DefaultProcessingRatio]
    /\ sessions = << >>

InitCatalog ==
    /\ CatalogStore
    /\ valid_api_keys = {"key-1"}

NextCatalog ==
    \/ CreateCustomer
    \/ DeleteCustomer
    \/ UpdateMaterial
    \/ UpdateBlendComponents

SpecCatalog == InitCatalog /\ [][NextCatalog]_vars

(* The maintenance requests: bulk order entry, stock and ratio overwrite,  *)
(* the inventory migration, and the customer deletion that follows a bulk  *)
(* entry.                                                                   *)
NextAdmin ==
    \/ BulkCreateOrders
    \/ DeleteCustomer
    \/ UpdateInventoryQuantity
    \/ UpdateMaterialRatio
    \/ MigrateInventory

SpecAdmin == InitCatalog /\ [][NextAdmin]_vars

----------------------------------------------------------------------------
(* Orders on a material whose type is changed while they exist: a store of  *)
(* single origins only, material 5 being one that PUT /materials/5/ can     *)
(* retype.                                                                  *)

SeedRetype ==
    [materials |->
        (1 :> [name |-> "Brazil", type |-> "single_origin"]) @@
        (2 :> [name |-> "Colombia", type |-> "single_origin"]) @@
        (5 :> [name |-> "Yirgacheffe", type |-> "single_origin"]),
     inventory |->
        (1 :> 100 * Unit) @@ (2 :> 100 * Unit) @@ (5 :> 100 * Unit)]

InitRetype ==
    /\ customers = {"Nowon"}
    /\ materials = SeedRetype.materials
    /\ inventory = SeedRetype.inventory
    /\ inventory_before = SeedRetype.inventory
    /\ blend_components = {}
    /\ blend_component_id_seq = 1
    /\ orders = {}
    /\ purchases = {}
    /\ material_id_seq = 6
    /\ order_id_seq = 1
    /\ purchase_id_seq = 1
    /\ response = Resp("none", 0, 0, "none")
    /\ report = NoReport
    /\ processing_ratio = [m \in DOMAIN materials |-> DefaultProcessingRatio]
    /\ valid_api_keys = {"key-1"}
    /\ sessions = << >>

NextRetype ==
    \/ CreateOrder
    \/ UpdateMaterial
    \/ DeleteOrder

SpecRetype == InitRetype /\ [][NextRetype]_vars

----------------------------------------------------------------------------
(* Two requests in flight on one Inventory row.  Each request has its own   *)
(* session (database.py:33-37); the engine sets no isolation level          *)
(* (database.py:17-25), so the sessions run READ COMMITTED: a SELECT sees   *)
(* what is committed, an UPDATE waits for the row lock and then stores the  *)
(* value the session computed from what it had read.  inventory, orders and *)
(* purchases are the committed rows; sessions holds what each request read  *)
(* and is about to write.                                                   *)

ConcurrentMaterial == 2
ConcurrentOrderQtys == {10, 50, 60}

SeedPurchase ==
    [id |-> 1, material_id |-> ConcurrentMaterial, material_name |-> "Colombia",
     quantity_kg |-> 60, price_per_kg |-> 10000, total_price |-> 600000,
     purchase_date |-> 20240201]

OrderRequest(quantity) ==
    [op |-> "create_order", quantity |-> quantity, purchase_id |-> 0,
     pc |-> "start", read |-> 0, required |-> 0, new_quantity |-> 0,
     id |-> 0, status |-> 0]

PurchaseDeleteRequest(purchase_id) ==
    [op |-> "delete_material_purchase", quantity |-> 0,
     purchase_id |-> purchase_id, pc |-> "start", read |-> 0, required |-> 0,
     new_quantity |-> 0, id |-> 0, status |-> 0]

InitConcurrent ==
    /\ customers = {"Nowon"}
    /\ materials = SeedRetype.materials
    /\ inventory = SeedRetype.inventory
    /\ inventory_before = SeedRetype.inventory
    /\ blend_components = {}
    /\ blend_component_id_seq = 1
    /\ orders = {}
    /\ purchases = {SeedPurchase}
    /\ material_id_seq = 6
    /\ order_id_seq = 1
    /\ purchase_id_seq = 2
    /\ response = Resp("none", 0, 0, "none")
    /\ report = NoReport
    /\ processing_ratio = [m \in DOMAIN materials |-> DefaultProcessingRatio]
    /\ valid_api_keys = {"key-1"}
    /\ \E first \in {OrderRequest(q) : q \in ConcurrentOrderQtys},
          second \in {OrderRequest(q) : q \in ConcurrentOrderQtys}
                         \cup {PurchaseDeleteRequest(SeedPurchase.id)} :
          sessions = <<first, second>>

(* what the request takes from the row: the requirement of the order        *)
(* (main.py:320-367), or the quantity of the purchase (main.py:835)         *)
RequiredOf(s) ==
    IF s.op = "create_order"
    THEN calculate_required_materials(ConcurrentMaterial, s.quantity,
                                      FALSE).required[1].quantity
    ELSE (CHOOSE p \in purchases : p.id = s.purchase_id).quantity_kg * Unit

SessionUnchanged ==
    UNCHANGED <<processing_ratio, valid_api_keys, customers, materials,
                blend_components, blend_component_id_seq, material_id_seq,
                purchase_id_seq, report>>

(* the SELECT of the Inventory row: main.py:372-374, 834 *)
ReadInventory(i) ==
    /\ sessions[i].pc = "start"
    /\ sessions' = [sessions EXCEPT ![i].pc = "read",
                                    ![i].read = inventory[ConcurrentMaterial],
                                    ![i].required = RequiredOf(sessions[i])]
    /\ UNCHANGED <<inventory, orders, purchases, order_id_seq, response,
                   inventory_before>>
    /\ SessionUnchanged

(* the stock check on the value read, and the new quantity computed from    *)
(* it: main.py:379-385 and 401-413, 835-839                                 *)
CheckStock(i) ==
    /\ sessions[i].pc = "read"
    /\ IF sessions[i].read < sessions[i].required
       THEN /\ sessions' = [sessions EXCEPT ![i].pc = "done", ![i].status = 400]
            /\ response' = Resp(sessions[i].op, 0, 400, "insufficient_stock")
       ELSE /\ sessions' = [sessions EXCEPT
                               ![i].pc = "checked",
                               ![i].new_quantity =
                                   sessions[i].read - sessions[i].required]
            /\ UNCHANGED response
    /\ UNCHANGED <<inventory, orders, purchases, order_id_seq, inventory_before>>
    /\ SessionUnchanged

(* the flush of db.commit(): the UPDATE takes the row lock, which it gets   *)
(* once no other session holds it, and the INSERT draws the order id        *)
WriteInventory(i) ==
    /\ sessions[i].pc = "checked"
    /\ \A j \in DOMAIN sessions : sessions[j].pc # "written"
    /\ sessions' = [sessions EXCEPT
                       ![i].pc = "written",
                       ![i].id = IF sessions[i].op = "create_order"
                                 THEN order_id_seq ELSE sessions[i].purchase_id]
    /\ order_id_seq' = IF sessions[i].op = "create_order"
                       THEN order_id_seq + 1 ELSE order_id_seq
    /\ UNCHANGED <<inventory, orders, purchases, response, inventory_before>>
    /\ SessionUnchanged

(* the COMMIT: main.py:451, 843 *)
CommitSession(i) ==
    /\ sessions[i].pc = "written"
    /\ inventory' = [inventory EXCEPT
                        ![ConcurrentMaterial] = sessions[i].new_quantity]
    /\ IF sessions[i].op = "create_order"
       THEN /\ orders' = orders \cup
                    {NewOrder(sessions[i].id, "Nowon", ConcurrentMaterial,
                              sessions[i].quantity, 15000, 20240201)}
            /\ UNCHANGED purchases
            /\ sessions' = [sessions EXCEPT ![i].pc = "done", ![i].status = 201]
            /\ response' = Resp("create_order", sessions[i].id, 201, "ok")
       ELSE /\ purchases' = {p \in purchases : p.id # sessions[i].purchase_id}
            /\ UNCHANGED orders
            /\ sessions' = [sessions EXCEPT ![i].pc = "done", ![i].status = 200]
            /\ response' = Resp("delete_material_purchase", sessions[i].id,
                                200, "ok")
    /\ inventory_before' = inventory
    /\ UNCHANGED order_id_seq
    /\ SessionUnchanged

NextConcurrent ==
    \E i \in 1..2 :
        \/ ReadInventory(i)
        \/ CheckStock(i)
        \/ WriteInventory(i)
        \/ CommitSession(i)

SpecConcurrent == InitConcurrent /\ [][NextConcurrent]_vars

----------------------------------------------------------------------------
(* Authentication, auth.py:21, 56-66. Spec, SpecCatalog and SpecAdmin are   *)
(* the requests of a client that sends a configured key; SpecAuth is the    *)
(* requests of a client that does not.                                      *)

NoCredentials == "missing"       \* the request has no Authorization header

Credentials == {NoCredentials, "", "stale-key", "key-2"}

(* API_KEYS unset (the split of "" is [""]), or one key configured *)
ApiKeyConfigurations == {{""}, {"key-1"}}

(* HTTPBearer(): without a scheme and a non-empty credential it answers 403 *)
security(credential) ==
    IF credential = NoCredentials \/ credential = "" THEN 403 ELSE 200

(* a check that takes any credential that is not empty *)
verify_api_key_NonEmptyOnly(api_key) ==
    IF api_key = "" THEN 401 ELSE 200

verify_api_key(api_key) ==
    IF api_key \notin valid_api_keys \/ api_key = "" THEN 401 ELSE 200

Refused(op, status) ==
    /\ response' = Resp(op, 0, status, "not_authorized")
    /\ inventory_before' = inventory
    /\ UNCHANGED <<processing_ratio, valid_api_keys, sessions, customers,
                   materials, blend_components, blend_component_id_seq,
                   inventory, orders, purchases, material_id_seq, order_id_seq,
                   purchase_id_seq, report>>

(* api_key: str = Depends(verify_api_key)  in a handler's signature: the    *)
(* body runs only when the dependency returns                               *)
DependsVerifyApiKey(op, Handler) ==
    \E credential \in Credentials :
        IF security(credential) # 200 THEN Refused(op, security(credential))
        ELSE IF verify_api_key(credential) # 200
        THEN Refused(op, verify_api_key(credential))
        ELSE Handler

RequestCreateCustomer == DependsVerifyApiKey("create_customer", CreateCustomer)
RequestDeleteCustomer == DependsVerifyApiKey("delete_customer", DeleteCustomer)
RequestCreateOrder == DependsVerifyApiKey("create_order", CreateOrder)
RequestDeleteOrder == DependsVerifyApiKey("delete_order", DeleteOrder)
RequestCreateMaterial == DependsVerifyApiKey("create_material", CreateMaterial)
RequestUpdateBlendComponents == DependsVerifyApiKey("update_blend_components", UpdateBlendComponents)
RequestUpdateMaterial == DependsVerifyApiKey("update_material", UpdateMaterial)
RequestUpdateMaterialRatio == DependsVerifyApiKey("update_material_ratio", UpdateMaterialRatio)
RequestCreateMaterialPurchase == DependsVerifyApiKey("create_material_purchase", CreateMaterialPurchase)
RequestDeleteMaterialPurchase == DependsVerifyApiKey("delete_material_purchase", DeleteMaterialPurchase)
RequestDeletePurchase == DependsVerifyApiKey("delete_purchase", DeletePurchase)
RequestMigrateInventory == DependsVerifyApiKey("migrate_inventory", MigrateInventory)
RequestUpdateInventoryQuantity == DependsVerifyApiKey("update_inventory_quantity", UpdateInventoryQuantity)
RequestBulkCreateOrders == DependsVerifyApiKey("bulk_create_orders", BulkCreateOrders)

InitAuth ==
    /\ CatalogStore
    /\ valid_api_keys \in ApiKeyConfigurations

NextAuth ==
    \/ RequestCreateCustomer
    \/ RequestDeleteCustomer
    \/ RequestCreateOrder
    \/ RequestDeleteOrder
    \/ RequestCreateMaterial
    \/ RequestUpdateBlendComponents
    \/ RequestUpdateMaterial
    \/ RequestUpdateMaterialRatio
    \/ UpdateMaterialRatioApi
    \/ RequestCreateMaterialPurchase
    \/ RequestDeleteMaterialPurchase
    \/ RequestDeletePurchase
    \/ RequestMigrateInventory
    \/ RequestUpdateInventoryQuantity
    \/ RequestBulkCreateOrders

SpecAuth == InitAuth /\ [][NextAuth]_vars

----------------------------------------------------------------------------
(* Properties of the inventory ledger *)

LedgerOps == {"create_order", "delete_order", "create_material_purchase",
              "delete_material_purchase", "delete_purchase"}

PurchaseById(id) == {p \in purchases : p.id = id}

(* C1: starting from inventories that are all >= 0, after any sequence of   *)
(* order create, order delete, purchase create and purchase delete          *)
(* requests, the quantity of every Inventory row is >= 0.                   *)
C1_InventoryNeverNegative ==
    \A m \in DOMAIN inventory : inventory[m] >= 0

(* C2: through every purchase-delete operation of the API, deleting a       *)
(* purchase whose quantity_kg exceeds the current inventory quantity of its *)
(* material fails with an insufficient-stock error and leaves the inventory *)
(* and the purchase record unchanged.                                       *)
C2_OversizedPurchaseDeleteRejected ==
    [][ \A p \in purchases :
          ( /\ response'.op \in {"delete_material_purchase", "delete_purchase"}
            /\ response'.id = p.id
            /\ response'.detail # "db_error"
            /\ p.material_id \in DOMAIN inventory
            /\ p.quantity_kg * Unit > inventory[p.material_id] )
          => ( /\ response'.status = 400
               /\ response'.detail = "insufficient_stock"
               /\ inventory' = inventory
               /\ purchases' = purchases ) ]_vars

(* C3: if an order is created successfully and then deleted, with no other  *)
(* operation in between, every Inventory row has exactly the quantity it    *)
(* had before the order was created.                                        *)
C3_OrderDeleteRestoresInventory ==
    [][ ( /\ response.op = "create_order"
          /\ response.status = 201
          /\ response'.op = "delete_order"
          /\ response'.status = 200
          /\ response'.id = response.id )
        => inventory' = inventory_before ]_vars

(* the order was created and deleted, nothing else was ever applied, and    *)
(* the deletion moved stock                                                 *)
C3_Witness ==
    /\ response.op = "delete_order"
    /\ response.status = 200
    /\ purchases = {}
    /\ purchase_id_seq = 1
    /\ material_id_seq = 6
    /\ 4 \in DOMAIN inventory
    /\ inventory_before # inventory
    /\ inventory[1] = 100 * Unit
    /\ inventory[4] = 5 * Unit

RejectionDetails == {"material_not_found", "origin_not_found",
                     "inventory_not_found", "insufficient_stock"}

(* C4: an order creation that is rejected (unknown material, missing origin *)
(* of a blend, missing inventory row, insufficient stock of any one         *)
(* required raw material) adds no Order row and changes no Inventory row.   *)
C4_RejectedOrderAppliesNothing ==
    [][ ( /\ response'.op = "create_order"
          /\ response'.detail \in RejectionDetails )
        => ( /\ orders' = orders
             /\ inventory' = inventory
             /\ order_id_seq' = order_id_seq ) ]_vars

(* a blend order of 50 kg was refused for want of Sidamo (6 kg needed, 5 in *)
(* stock) although Brazil, Colombia and Guatemala had enough                *)
C4_Witness ==
    /\ response.op = "create_order"
    /\ response.status = 400
    /\ response.detail = "insufficient_stock"
    /\ 6 \notin DOMAIN materials
    /\ 4 \in DOMAIN inventory
    /\ inventory[1] >= 50 * blend_ratio * 55
    /\ inventory[2] >= 50 * single_origin_ratio * 10
    /\ inventory[3] >= 50 * blend_ratio * 15
    /\ inventory[4] < 50 * blend_ratio * 10
    /\ inventory[4] >= 10 * blend_ratio * 10
    /\ orders = {}

InventoryQuantity(inv, m) == IF m \in DOMAIN inv THEN inv[m] ELSE 0

(* C5: in every request that creates or deletes an order or a purchase, the *)
(* record change and the inventory change it accompanies are committed      *)
(* together: no step, a failing one included, leaves the record added or    *)
(* removed without its inventory effect, or the inventory changed without   *)
(* the record.                                                              *)
C5_RecordAndInventoryCommitTogether ==
    [][ response'.op \in LedgerOps =>
        /\ \A p \in purchases' \ purchases :
              /\ p.material_id \in DOMAIN inventory'
              /\ inventory'[p.material_id] =
                     InventoryQuantity(inventory, p.material_id)
                         + p.quantity_kg * Unit
        /\ \A p \in purchases \ purchases' :
              p.material_id \in DOMAIN inventory => inventory' # inventory
        /\ (orders' # orders) => (inventory' # inventory)
        /\ (inventory' # inventory) =>
              (orders' # orders \/ purchases' # purchases) ]_vars

(* The requirement per ordered kg the specification states, in 1/1000 kg:   *)
(* 1.2 * 0.55, 1.2 * 0.20, 1.2 * 0.15, 1.2 * 0.10 for the four origins of a *)
(* blend, 1.23 for a single origin, 1 otherwise.                            *)
StatedBlendShare ==
    << [name |-> "Brazil", per_kg |-> 660], [name |-> "Colombia", per_kg |-> 240],
       [name |-> "Guatemala", per_kg |-> 180], [name |-> "Sidamo", per_kg |-> 120] >>

RECURSIVE SumQuantities(_, _)
SumQuantities(required, i) ==
    IF i > Len(required) THEN 0
    ELSE required[i].quantity + SumQuantities(required, i + 1)

(* C6: the raw-material requirement of an order of quantity q depends only  *)
(* on the ordered material's type: a blend needs four entries, one per      *)
(* fixed origin, of 1.2*q*0.55, 1.2*q*0.20, 1.2*q*0.15 and 1.2*q*0.10       *)
(* (together 1.2*q); a single origin one entry for itself of 1.23*q; any    *)
(* other type one entry for itself of q.                                    *)
C6_RequirementByType ==
    \A m \in DOMAIN materials, q \in OrderQtys :
        LET r == RequiredMaterials(m, q)
            type == materials[m].type
        IN r.status = 200 =>
            IF type = "blend"
            THEN /\ Len(r.required) = 4
                 /\ \A i \in 1..4 :
                      /\ r.required[i].id \in DOMAIN materials
                      /\ materials[r.required[i].id].name = StatedBlendShare[i].name
                      /\ r.required[i].quantity * 1000 =
                             q * StatedBlendShare[i].per_kg * Unit
                 /\ SumQuantities(r.required, 1) * 10 = 12 * q * Unit
            ELSE /\ Len(r.required) = 1
                 /\ r.required[1].id = m
                 /\ r.required[1].quantity * 100 =
                        (IF type = "single_origin" THEN 123 ELSE 100) * q * Unit

(* a blend order went through and took 0.66 kg of Brazil per ordered kg *)
C6_Witness ==
    /\ response.op = "create_order"
    /\ response.status = 201
    /\ \E o \in orders :
        /\ o.id = response.id
        /\ materials[o.material_id].type = "blend"
        /\ o.quantity > 0
        /\ (inventory_before[1] - inventory[1]) * 100 = 66 * o.quantity * Unit

(* C7: a material created through the API starts with inventory 0, and a    *)
(* successful order of q kg of a single_origin material lowers that         *)
(* material's inventory by exactly 1.23*q and touches no other row; so a    *)
(* purchase of 100 kg followed by an order of 50 kg leaves 38.5 kg.         *)
C7_SingleOriginOrderConsumption ==
    [][ /\ ( /\ response'.op = "create_material"
             /\ response'.status = 200 )
           => ( /\ response'.id \in DOMAIN inventory'
                /\ inventory'[response'.id] = 0 )
        /\ ( /\ response'.op = "create_order"
             /\ response'.status = 201 )
           => \A o \in orders' \ orders :
                materials[o.material_id].type = "single_origin" =>
                  /\ DOMAIN inventory' = DOMAIN inventory
                  /\ (inventory[o.material_id] - inventory'[o.material_id]) * 100
                         = 123 * o.quantity * Unit
                  /\ \A m \in DOMAIN inventory \ {o.material_id} :
                         inventory'[m] = inventory[m] ]_vars

(* the scenario: material 6 was created as single_origin, 100 kg were       *)
(* bought, 50 kg were ordered, and 38.5 kg are left                         *)
C7_Witness ==
    /\ response.op = "create_order"
    /\ response.status = 201
    /\ 6 \in DOMAIN materials
    /\ materials[6].type = "single_origin"
    /\ \E p \in purchases : purchases = {p} /\ p.material_id = 6 /\ p.quantity_kg = 100
    /\ \E o \in orders : orders = {o} /\ o.material_id = 6 /\ o.quantity = 50
    /\ inventory_before[6] = 100 * Unit
    /\ inventory[6] * 10 = 385 * Unit

----------------------------------------------------------------------------
(* Properties of the profit reports *)

ReportEntries == IF report.kind = "none" THEN << >> ELSE report.entries

(* the in-window orders an entry of the current report stands for *)
EntryOrders(e) ==
    LET in_window == OrdersBetween(report.window)
    IN CASE report.kind = "summary" -> in_window
         [] report.kind = "by_product" ->
                {o \in in_window : o.material_id = e.material_id
                                   /\ o.material_name = e.material_name}
         [] report.kind = "by_customer" ->
                {o \in in_window : o.customer_name = e.customer_name}
         [] report.kind = "monthly" /\ report.variant = "router" ->
                {o \in in_window : Year(o.order_date) = e.year
                                   /\ Month(o.order_date) = e.month}
         [] OTHER -> {o \in in_window : Month(o.order_date) = e.month}

NoPurchase == [id |-> 0, price_per_kg |-> 0]

(* the purchases of the order's material with the greatest purchase_date <= *)
(* order_date; NoPurchase, at price 0, when there is none                   *)
AsOfPurchases(o) ==
    LET c == {p \in purchases :
                 p.material_id = o.material_id /\ p.purchase_date <= o.order_date}
    IN IF c = {} THEN {NoPurchase}
       ELSE {[id |-> p.id, price_per_kg |-> p.price_per_kg] :
                p \in {x \in c : \A y \in c : y.purchase_date <= x.purchase_date}}

AsOfCostSums(O) ==
    {SumOver(O, [o \in O |-> o.quantity * f[o].price_per_kg]) :
        f \in {g \in [O -> UNION {AsOfPurchases(o) : o \in O}] :
                  \A o \in O : g[o] \in AsOfPurchases(o)}}

NonBlend(O) ==
    \A o \in O : /\ o.material_id \in DOMAIN materials
                 /\ materials[o.material_id].type # "blend"

(* C8: in every profit report, the cost charged to an order of a non-blend  *)
(* material is order.quantity times the price_per_kg of the purchase of the *)
(* same material with the greatest purchase_date <= order_date, and 0 when  *)
(* there is none; later purchases and earlier ones that are not the latest  *)
(* contribute nothing.  (Stated on every entry that stands for non-blend    *)
(* orders only.)                                                            *)
C8_AsOfCost ==
    \A i \in 1..Len(ReportEntries) :
        LET e == ReportEntries[i]
        IN NonBlend(EntryOrders(e)) => e.cost \in AsOfCostSums(EntryOrders(e))

(* the same, of the reports main.py mounts *)
C8_AsOfCostMountedRouter ==
    report.kind # "none" /\ report.variant = "router" => C8_AsOfCost

(* C9: every entry of every report shape satisfies profit = sales - cost,   *)
(* with the sales and cost reported in that same entry.                     *)
C9_ProfitIsSalesMinusCost ==
    \A i \in 1..Len(ReportEntries) :
        ReportEntries[i].profit = ReportEntries[i].sales - ReportEntries[i].cost

(* the summary of the scenario: sales 1,000,000, cost 600,000, profit       *)
(* 400,000, rate 40                                                         *)
C9_Witness ==
    /\ report.kind = "summary"
    /\ report.variant = "router"
    /\ report.entries[1].sales = 1000000
    /\ report.entries[1].cost = 600000
    /\ report.entries[1].profit = 400000
    /\ report.entries[1].profit_rate = 40

(* a summary over blend orders with a non-zero blended rate *)
C9_WitnessBlend ==
    /\ report.kind = "summary"
    /\ report.variant = "router"
    /\ \E o \in OrdersBetween(report.window) :
          materials[o.material_id].type = "blend"
    /\ calculate_blending_cost(report.window, [i \in 1..2 |-> i]) > 0
    /\ report.entries[1].cost # 0

RateRule(sales, profit, rate) ==
    IF sales = 0 THEN rate = 0 ELSE rate = (profit * 100) \div sales

(* C10 as claimed: profit_rate is 0 whenever the entry's sales is 0 and     *)
(* otherwise equals profit / sales * 100, and so does the summary's net     *)
(* profit rate.                                                             *)
C10_RateZeroOnlyAtZeroSales ==
    /\ \A i \in 1..Len(ReportEntries) :
          RateRule(ReportEntries[i].sales, ReportEntries[i].profit,
                   ReportEntries[i].profit_rate)
    /\ (report.kind = "summary" /\ report.variant = "router") =>
          RateRule(report.entries[1].sales, report.net_profit,
                   report.net_profit_rate)

AmendedRateRule(sales, profit, rate) ==
    IF sales <= 0 THEN rate = 0 ELSE rate = (profit * 100) \div sales

(* C10 as amended: profit_rate is 0 whenever the entry's sales is 0 or      *)
(* negative, and equals profit / sales * 100 when sales is positive; the    *)
(* same rule holds for the summary's net profit rate.                       *)
C10_RateZeroUnlessSalesPositive ==
    /\ \A i \in 1..Len(ReportEntries) :
          AmendedRateRule(ReportEntries[i].sales, ReportEntries[i].profit,
                          ReportEntries[i].profit_rate)
    /\ (report.kind = "summary" /\ report.variant = "router") =>
          AmendedRateRule(report.entries[1].sales, report.net_profit,
                          report.net_profit_rate)

(* an entry with no sales but a cost: the rate is 0, not a division fault *)
C10_Witness ==
    /\ report.kind = "by_product"
    /\ \E i \in 1..Len(report.entries) :
          /\ report.entries[i].sales = 0
          /\ report.entries[i].profit < 0
          /\ report.entries[i].profit_rate = 0

(* an entry with negative sales *)
C10_WitnessNegativeSales ==
    /\ report.kind = "by_customer"
    /\ \E i \in 1..Len(report.entries) :
          /\ report.entries[i].sales < 0
          /\ report.entries[i].profit # 0
          /\ report.entries[i].profit_rate = 0

----------------------------------------------------------------------------
(* The summary, its overheads and the grouped reports *)

IsRouterSummary == report.kind = "summary" /\ report.variant = "router"

InWindowOrders(w) ==
    {o \in orders : w[1] <= o.order_date /\ o.order_date <= w[2]}

BlendOrders(O) ==
    {o \in O : /\ o.material_id \in DOMAIN materials
               /\ materials[o.material_id].type = "blend"}

(* C11: the summary's total cost is the blended period rate of the window   *)
(* times the summed quantity of the in-window orders of blend materials,    *)
(* plus, over the in-window orders of every other material, quantity times  *)
(* the as-of purchase price; each in-window order is in exactly one of the  *)
(* two terms, and total sales is the sum of total_price over all of them.   *)
C11_SummaryCostComposition ==
    IsRouterSummary =>
        LET O == InWindowOrders(report.window)
            blend == BlendOrders(O)
            other == O \ blend
        IN /\ report.entries[1].sales = SumOver(O, [o \in O |-> o.total_price])
           /\ \E rank \in Ranks : \E c \in AsOfCostSums(other) :
                 report.entries[1].cost =
                     calculate_blending_cost(report.window, rank)
                         * SumOver(blend, [o \in blend |-> o.quantity])
                     + c

(* a summary over a blend order (30 kg at a blended rate of 2,000) and an   *)
(* origin order (50 kg at 10,000)                                           *)
C11_Witness ==
    /\ IsRouterSummary
    /\ \E o \in BlendOrders(InWindowOrders(report.window)) : o.quantity = 30
    /\ \E o \in InWindowOrders(report.window) \ BlendOrders(orders) :
          o.quantity = 50 /\ AsOfPurchases(o) # {NoPurchase}
    /\ \A rank \in Ranks : calculate_blending_cost(report.window, rank) = 2000
    /\ report.entries[1].cost = 560000

(* C12: the summary's net profit is total profit minus the four overheads:  *)
(* packaging = blend quantity * 1000, shipping = blend quantity / 15 * 6000,*)
(* order boxes = number of in-window orders * 1000, rent = month count *    *)
(* 650000; the overhead total is the sum of the four items.                 *)
C12_NetProfitOverheads ==
    IsRouterSummary =>
        LET O == InWindowOrders(report.window)
            blend == BlendOrders(O)
            blend_quantity == SumOver(blend, [o \in blend |-> o.quantity])
        IN /\ report.packaging_cost = blend_quantity * 1000
           /\ report.shipping_box_cost * 15 = blend_quantity * 6000
           /\ report.order_box_cost = Cardinality(O) * 1000
           /\ report.rent_cost = report.months_diff * 650000
           /\ report.extra_costs =
                 report.packaging_cost + report.shipping_box_cost
                     + report.order_box_cost + report.rent_cost
           /\ report.net_profit = report.entries[1].profit - report.extra_costs

(* two orders, 30 kg of them blend, over twelve months *)
C12_Witness ==
    /\ IsRouterSummary
    /\ Cardinality(InWindowOrders(report.window)) = 2
    /\ report.packaging_cost = 30000
    /\ report.shipping_box_cost = 12000
    /\ report.order_box_cost = 2000
    /\ report.rent_cost = 12 * 650000
    /\ report.net_profit = report.entries[1].profit - 7844000

(* C13: for a window with start_date <= end_date the month count is         *)
(* (end.year - start.year) * 12 + end.month - start.month + 1, it is at     *)
(* least 1, it is 1 when both dates fall in the same month, and the rent is *)
(* not negative.                                                            *)
C13_InclusiveMonthCount ==
    (IsRouterSummary /\ report.window[1] <= report.window[2]) =>
        LET start == report.window[1]
            end == report.window[2]
        IN /\ report.months_diff =
                 (Year(end) - Year(start)) * 12 + Month(end) - Month(start) + 1
           /\ report.months_diff >= 1
           /\ (Year(start) = Year(end) /\ Month(start) = Month(end))
                 => report.months_diff = 1
           /\ report.rent_cost >= 0

(* a window inside one month *)
C13_Witness ==
    /\ IsRouterSummary
    /\ report.window = << 20240101, 20240115 >>
    /\ report.months_diff = 1
    /\ report.rent_cost = 650000

(* a window across a year boundary: 2024-02 .. 2025-02 is thirteen months *)
C13_WitnessAcrossYears ==
    /\ IsRouterSummary
    /\ report.window = << 20240201, 20250228 >>
    /\ report.months_diff = 13

(* C14: the by-product and the by-customer report list their entries by    *)
(* profit, non-increasing; the by-product report has one entry per         *)
(* (material id, material name) of the in-window orders and the by-customer *)
(* report one per customer name.                                            *)
C14_SortedByProfitOneEntryPerGroup ==
    report.kind \in {"by_product", "by_customer"} =>
        LET O == InWindowOrders(report.window)
            n == Len(report.entries)
        IN /\ \A i \in 1..(n - 1) :
                 report.entries[i].profit >= report.entries[i + 1].profit
           /\ report.kind = "by_product" =>
                 /\ {<<report.entries[i].material_id,
                       report.entries[i].material_name>> : i \in 1..n}
                      = {<<o.material_id, o.material_name>> : o \in O}
                 /\ n = Cardinality({<<o.material_id, o.material_name>> : o \in O})
           /\ report.kind = "by_customer" =>
                 /\ {report.entries[i].customer_name : i \in 1..n}
                      = {o.customer_name : o \in O}
                 /\ n = Cardinality({o.customer_name : o \in O})

(* two products with different profits *)
C14_Witness ==
    /\ report.kind = "by_product"
    /\ report.variant = "router"
    /\ Len(report.entries) = 2
    /\ report.entries[1].profit > report.entries[2].profit

(* two customers with different profits *)
C14_WitnessCustomers ==
    /\ report.kind = "by_customer"
    /\ report.variant = "router"
    /\ Len(report.entries) = 2
    /\ report.entries[1].profit > report.entries[2].profit

(* the (year, month) an entry of the monthly report stands for; the report  *)
(* of src/analytics.py covers one calendar year and names the month only    *)
EntryYearMonth(e) ==
    IF report.variant = "router" THEN <<e.year, e.month>>
    ELSE <<Year(report.window[1]), e.month>>

(* C15: the monthly report has exactly one entry for every (year, month)   *)
(* with an in-window order and none for any other, in strictly ascending   *)
(* order of (year, month); the same month number of two years is two       *)
(* entries.                                                                 *)
C15_OneEntryPerYearMonth ==
    report.kind = "monthly" =>
        LET O == InWindowOrders(report.window)
            pairs == {<<Year(o.order_date), Month(o.order_date)>> : o \in O}
            n == Len(report.entries)
            key(i) == EntryYearMonth(report.entries[i])
        IN /\ {key(i) : i \in 1..n} = pairs
           /\ n = Cardinality(pairs)
           /\ \A i \in 1..(n - 1) :
                 key(i)[1] * 100 + key(i)[2] < key(i + 1)[1] * 100 + key(i + 1)[2]

(* February 2024 and February 2025 in one report *)
C15_Witness ==
    /\ report.kind = "monthly"
    /\ report.variant = "router"
    /\ Len(report.entries) = 2
    /\ report.entries[1].year = 2024 /\ report.entries[1].month = 2
    /\ report.entries[2].year = 2025 /\ report.entries[2].month = 2

(* the rows with the ratio of row c doubled and every other row as it is *)
WithRatioDoubled(rows, c) ==
    (rows \ {c}) \cup {[c EXCEPT !.ratio = 2 * c.ratio]}

NeverBoughtBy(material_id, as_of) ==
    ~ \E p \in purchases :
        p.material_id = material_id /\ p.purchase_date <= as_of

(* C16: the blended rate is the sum over the component rows of resolved    *)
(* price * ratio: doubling the ratio of one row, the others held fixed,    *)
(* adds exactly that row's contribution once more, and a component with no *)
(* applicable purchase contributes 0.                                       *)
C16_BlendRateLinearInRatio ==
    IsRouterSummary =>
        LET as_of == report.window[2]
        IN \A rank \in Ranks :
            /\ calculate_blending_cost(report.window, rank) =
                  SumOver(blend_components,
                      [c \in blend_components |->
                          (LatestPurchasePrice(c.component_id, as_of, rank)
                              * c.ratio) \div 100])
            /\ \A c \in blend_components :
                  /\ BlendingCostOf(WithRatioDoubled(blend_components, c),
                                    as_of, rank)
                        = BlendingCostOf(blend_components, as_of, rank)
                            + (LatestPurchasePrice(c.component_id, as_of, rank)
                                  * c.ratio) \div 100
                  /\ NeverBoughtBy(c.component_id, as_of) =>
                        BlendingCostOf({c}, as_of, rank) = 0

(* a recipe with a priced and an unpriced component, charged to a blend    *)
(* order                                                                    *)
C16_Witness ==
    /\ IsRouterSummary
    /\ BlendOrders(InWindowOrders(report.window)) # {}
    /\ \E c \in blend_components : NeverBoughtBy(c.component_id, report.window[2])
    /\ \E c \in blend_components :
          \A rank \in Ranks :
              LatestPurchasePrice(c.component_id, report.window[2], rank) > 0
    /\ report.entries[1].cost > 0

----------------------------------------------------------------------------
(* Materials without an Inventory row *)

(* the raw materials the ledger adjusts for an order row *)
OrderMaterialsAdjusted(o) ==
    LET r == RequiredMaterials(o.material_id, o.quantity)
    IN {r.required[i].id : i \in 1..Len(r.required)}

(* the order or purchase rows the step has inserted or deleted whose        *)
(* material had no Inventory row when the request arrived                   *)
OrdersChangedWithoutRow ==
    {o \in (orders' \ orders) \cup (orders \ orders') :
        \E m \in OrderMaterialsAdjusted(o) : m \notin DOMAIN inventory}

PurchasesCreatedWithoutRow ==
    {p \in purchases' \ purchases : p.material_id \notin DOMAIN inventory}

PurchasesDeletedWithoutRow ==
    {p \in purchases \ purchases' : p.material_id \notin DOMAIN inventory}

(* C17 as claimed: order create, order delete, purchase create and          *)
(* purchase delete fail with an error when the material they adjust has no  *)
(* Inventory row, and then change neither the inventory nor the order and   *)
(* purchase records; none skips the adjustment or goes on as if the row     *)
(* existed.                                                                 *)
C17_MissingInventoryRowIsAnError ==
    [][ response'.op \in LedgerOps =>
          /\ OrdersChangedWithoutRow = {}
          /\ PurchasesCreatedWithoutRow = {}
          /\ PurchasesDeletedWithoutRow = {}
          /\ response'.detail = "inventory_not_found" =>
                /\ response'.status >= 400
                /\ orders' = orders /\ purchases' = purchases
                /\ inventory' = inventory ]_vars

(* C17 as amended: order create and order delete fail with an error when a  *)
(* material they adjust has no Inventory row and change neither inventory   *)
(* nor records; a purchase create that succeeds for such a material creates *)
(* the row holding the purchased quantity; a purchase delete for such a     *)
(* material deletes the purchase and leaves the inventory as it was.        *)
C17_MissingRowOrdersFailPurchasesProceed ==
    [][ response'.op \in LedgerOps =>
          /\ OrdersChangedWithoutRow = {}
          /\ response'.detail = "inventory_not_found" =>
                /\ response'.op \in {"create_order", "delete_order"}
                /\ response'.status >= 400
                /\ orders' = orders /\ purchases' = purchases
                /\ inventory' = inventory
          /\ \A p \in PurchasesCreatedWithoutRow :
                response'.status = 200 =>
                    inventory' = (p.material_id :> p.quantity_kg * Unit) @@ inventory
          /\ \A p \in PurchasesDeletedWithoutRow :
                /\ response'.status = 200
                /\ inventory' = inventory ]_vars

(* a blend order refused because Guatemala has no Inventory row *)
C17_Witness ==
    /\ response.op = "create_order"
    /\ response.status = 404
    /\ response.detail = "inventory_not_found"
    /\ 3 \in DOMAIN materials
    /\ 3 \notin DOMAIN inventory
    /\ orders = {}
    /\ inventory = inventory_before

(* a purchase of Guatemala has created its Inventory row *)
C17_WitnessPurchaseCreatesRow ==
    /\ response.op = "create_material_purchase"
    /\ response.status = 200
    /\ 3 \notin DOMAIN inventory_before
    /\ 3 \in DOMAIN inventory
    /\ \E p \in purchases : p.material_id = 3 /\ inventory[3] = p.quantity_kg * Unit

(* a purchase of a material without an Inventory row has been deleted *)
C17_WitnessPurchaseDeletedWithoutRow ==
    /\ response.op \in {"delete_material_purchase", "delete_purchase"}
    /\ response.status = 200
    /\ 3 \notin DOMAIN inventory
    /\ purchases = {}
    /\ purchase_id_seq > 1

----------------------------------------------------------------------------
(* Properties of the catalogue *)

(* C18: after a customer is deleted successfully no Order with that name    *)
(* remains and the orders of every other customer are as they were;         *)
(* deleting a name that no customer has changes nothing.                    *)
C18_CustomerDeleteCascades ==
    [][ response'.op = "delete_customer" =>
          /\ response'.status = 200 =>
                \E name \in customers :
                    /\ customers' = customers \ {name}
                    /\ \A o \in orders' : o.customer_name # name
                    /\ {o \in orders' : o.customer_name # name}
                          = {o \in orders : o.customer_name # name}
          /\ response'.status # 200 =>
                customers' = customers /\ orders' = orders
          /\ response'.detail = "customer_not_found" =>
                /\ response'.status # 200
                /\ UNCHANGED store ]_vars

(* Dobu and its two orders are gone, Nowon's order is still there *)
C18_Witness ==
    /\ response.op = "delete_customer"
    /\ response.status = 200
    /\ "Dobu" \notin customers
    /\ "Nowon" \in customers
    /\ {o.id : o \in orders} = {1}

(* a delete of a name no customer has *)
C18_WitnessUnknownName ==
    /\ response.op = "delete_customer"
    /\ response.detail = "customer_not_found"
    /\ "Ghost" \notin customers
    /\ orders = SeedCatalog.orders

RowsOf(rows, blend) == {c \in rows : c.blend_id = blend}

(* the rows are the elements of the list, one row per element *)
RowsAreList(rows, L) ==
    /\ Cardinality(rows) = Len(L)
    /\ \E f \in [1..Len(L) -> rows] :
          /\ \A i, j \in 1..Len(L) : i # j => f[i] # f[j]
          /\ \A i \in 1..Len(L) :
                /\ f[i].component_id = L[i].component_id
                /\ f[i].ratio = L[i].ratio

(* C19: after update_blend_components(blend, L) succeeds the BlendComponent *)
(* rows of that blend are exactly the rows of L: no row from before the     *)
(* update survives and no row of another blend is touched; when the update  *)
(* fails, or the material is not a blend, the previous rows are all still   *)
(* there.                                                                   *)
C19_BlendComponentsReplaced ==
    [][ response'.op = "update_blend_components" =>
          /\ response'.status = 200 =>
                /\ RowsAreList(RowsOf(blend_components', response'.id),
                               response'.components)
                /\ \A c \in RowsOf(blend_components', response'.id) :
                      c.id \notin {x.id : x \in blend_components}
                /\ blend_components' \ RowsOf(blend_components', response'.id)
                      = blend_components \ RowsOf(blend_components, response'.id)
          /\ response'.status # 200 => blend_components' = blend_components
          /\ response'.detail = "not_blend" =>
                response'.status # 200 ]_vars

(* the recipe of HouseBlend was replaced by 60/40; SeasonBlend kept its own *)
C19_Witness ==
    /\ response.op = "update_blend_components"
    /\ response.status = 200
    /\ response.id = 5
    /\ Len(response.components) = 2
    /\ RowsOf(blend_components, 5) # {}
    /\ RowsOf(blend_components, 5) \cap SeedCatalog.blend_components = {}
    /\ RowsOf(blend_components, 4) = RowsOf(SeedCatalog.blend_components, 4)

(* a list that names a material that does not exist was refused *)
C19_WitnessRefused ==
    /\ response.op = "update_blend_components"
    /\ response.detail = "integrity_error"
    /\ blend_components = SeedCatalog.blend_components

(* C20: the type of every Material is one of regular, single_origin, blend *)
C20_MaterialTypeInDomain ==
    \A m \in DOMAIN materials :
        materials[m].type \in {"regular", "single_origin", "blend"}

----------------------------------------------------------------------------
(* Properties of the catalogue and the ledger together *)

EveryMaterialHasItsRow == DOMAIN materials \subseteq DOMAIN inventory

(* the step added one Material row and, with it, its Inventory row at 0 *)
MaterialCreatedWithRow ==
    \E id \in DOMAIN materials' \ DOMAIN materials :
        /\ DOMAIN materials' = DOMAIN materials \cup {id}
        /\ id \notin DOMAIN inventory
        /\ inventory' = (id :> 0) @@ inventory

NothingCreated == materials' = materials /\ inventory' = inventory

RowKeepingOps == {"create_material", "create_material_purchase",
                  "migrate_inventory"}

(* what creations, purchases and migrations keep, whatever a failed         *)
(* creation is taken to leave behind                                        *)
RowPerMaterialKept ==
    /\ response'.op \in RowKeepingOps
           => (EveryMaterialHasItsRow => EveryMaterialHasItsRow')
    /\ response'.op = "migrate_inventory" /\ response'.status = 200
           => EveryMaterialHasItsRow'
    /\ response'.op = "create_material" /\ response'.status = 200
           => MaterialCreatedWithRow

C21_WitnessBlendRefused ==
    /\ response.op = "create_material"
    /\ response.detail = "attribute_error"
    /\ material_id_seq - 1 \notin DOMAIN materials
    /\ material_id_seq - 1 \notin DOMAIN inventory

(* a migration gave a material its missing row *)
C21_WitnessMigrated ==
    /\ response.op = "migrate_inventory"
    /\ response.status = 200
    /\ response.id = 1
    /\ 3 \in DOMAIN inventory /\ inventory[3] = 0

NotFoundDetails == {"customer_not_found", "material_not_found",
                    "order_not_found", "purchase_not_found",
                    "inventory_not_found"}

(* C22: a request that names a customer, material, order, purchase or      *)
(* inventory row that does not exist is answered with 404, not 500 or 400, *)
(* and changes no state.                                                   *)
C22_UnknownEntityAnswered404 ==
    [][ response'.detail \in NotFoundDetails
            => response'.status = 404 /\ UNCHANGED store ]_vars

(* C23: creating a customer whose name already exists is rejected with the *)
(* conflict answer (400 "Customer already exists", not the internal error  *)
(* 500) and leaves the customer set as it was; a creation adds its name    *)
(* only when no customer has it, so no two customers share a name.         *)
C23_DuplicateCustomerRejected ==
    [][ response'.op = "create_customer"
            => /\ response'.name \in customers
                      => /\ response'.status = 400
                         /\ response'.detail = "customer_exists"
                         /\ customers' = customers
               /\ response'.status = 200
                      => /\ response'.name \notin customers
                         /\ customers' = customers \cup {response'.name}
               /\ response'.status # 200 => customers' = customers ]_vars

(* a customer that had been created through the API was submitted again *)
C23_Witness ==
    /\ response.op = "create_customer"
    /\ response.status = 400
    /\ response.name = "Ghost"
    /\ "Ghost" \in customers

----------------------------------------------------------------------------
(* Properties of the authentication *)

Sequences_ == <<material_id_seq, order_id_seq, purchase_id_seq,
                blend_component_id_seq>>

RefusedUnchanged ==
    /\ response'.status \in {401, 403}
    /\ UNCHANGED <<store, processing_ratio, Sequences_>>

(* C24 as stated: every request to a writing endpoint of main.py whose     *)
(* bearer credential is missing, empty or not a configured API key is      *)
(* refused and changes no state, also when no API key is configured.       *)
C24_EveryWriteNeedsAKey == [][RefusedUnchanged]_vars

(* C24, amended: every writing endpoint of main.py except                  *)
(* PUT /api/materials/{material_id}/ratio/ refuses, with no state change,  *)
(* a request whose bearer credential is missing, empty or not a configured *)
(* API key, also when no API key is configured; that one endpoint takes no *)
(* credential and stores the ratio.                                        *)
C24_WritesNeedAKeyButRatioApi ==
    [][ /\ response'.op # "update_material_ratio_api" => RefusedUnchanged
        /\ response'.op = "update_material_ratio_api"
               => /\ response'.status \in {200, 500}
                  /\ UNCHANGED <<store, Sequences_>>
                  /\ response'.status = 200
                         => processing_ratio'[response'.id] \in RatioValues
      ]_vars

(* a key that is not configured was refused while no key is configured *)
C24_Witness ==
    /\ valid_api_keys = {""}
    /\ response.op = "delete_order"
    /\ response.status = 401

(* the unauthenticated path stored a ratio *)
C24_WitnessRatioApi ==
    /\ response.op = "update_material_ratio_api"
    /\ response.status = 200
    /\ processing_ratio[5] = 12

----------------------------------------------------------------------------
(* Properties of orders on a retyped material *)

(* what an order of quantity kg of a material that is no blend moves, in    *)
(* 1/Unit kg, as the claims state it: 1.23 times the weight for a single    *)
(* origin and the weight itself otherwise                                   *)
StatedExpansion(type, quantity) ==
    IF type = "single_origin" THEN 1230 * quantity ELSE 1000 * quantity

(* the order a delete_order step removed *)
DeletedOrders == orders \ orders'

(* C25: deleting an order gives back the expansion of its quantity under   *)
(* the type its material has when the order is deleted.  An order of q kg  *)
(* created while the material was single_origin consumed 1.23 q; once the  *)
(* type has been changed to one treated as regular, deleting the order     *)
(* gives back q, and the inventory ends 0.23 q below its value before the  *)
(* order was created.                                                       *)
C25_RestoreByTypeAtDeletion ==
    [][ /\ response'.op = "create_order" /\ orders' # orders
               => \A o \in orders' \ orders :
                     inventory'[o.material_id] = inventory[o.material_id]
                         - StatedExpansion(materials[o.material_id].type,
                                           o.quantity)
        /\ response'.op = "delete_order" /\ response'.status = 200
               => \A o \in DeletedOrders :
                     /\ inventory'[o.material_id] = inventory[o.material_id]
                            + StatedExpansion(materials[o.material_id].type,
                                              o.quantity)
                     /\ ( /\ materials[o.material_id].type # "single_origin"
                          /\ inventory[o.material_id] =
                                 SeedRetype.inventory[o.material_id]
                                     - 1230 * o.quantity )
                            => inventory'[o.material_id] =
                                 SeedRetype.inventory[o.material_id]
                                     - 230 * o.quantity
      ]_vars

(* an order of 10 kg was placed on a single origin, the material was made   *)
(* regular, the order was deleted: 2.3 kg are missing                       *)
C25_Witness ==
    /\ response.op = "delete_order"
    /\ response.status = 200
    /\ orders = {}
    /\ materials[5].type = "regular"
    /\ inventory_before[5] = 100 * Unit - 12300
    /\ inventory[5] = 100 * Unit - 2300

----------------------------------------------------------------------------
(* Properties of concurrent requests *)

Succeeded == {i \in DOMAIN sessions : sessions[i].status \in {200, 201}}

AllDone == \A i \in DOMAIN sessions : sessions[i].pc = "done"

(* C26: when two requests that change the same Inventory row have both     *)
(* finished, however their reads, checks, writes and commits interleaved,  *)
(* the quantity is the initial quantity less what exactly the requests     *)
(* that succeeded took (no update is lost), and it is never negative.      *)
C26_NoLostUpdate ==
    /\ inventory[ConcurrentMaterial] >= 0
    /\ AllDone =>
          inventory[ConcurrentMaterial] =
              SeedRetype.inventory[ConcurrentMaterial]
                  - SumOver(Succeeded, [i \in Succeeded |-> sessions[i].required])

----------------------------------------------------------------------------
(* Properties of the report window *)

IsRouterReport == report.kind # "none" /\ report.variant = "router"

(* today - 365 days and today, on 2025-02-20 *)
StatedDefaultWindow == << 20240221, 20250220 >>

(* C27: in each of the four report endpoints, when start_date or end_date  *)
(* is missing (either one or both) both bounds are replaced by the default *)
(* window [today - 365 days, today]; the caller's window is used only when *)
(* both bounds are supplied.  The report covers the orders dated in that   *)
(* window.                                                                 *)
C27_DefaultWindowUnlessBothGiven ==
    IsRouterReport =>
        LET start_date == report.request[1]
            end_date == report.request[2]
            w == IF start_date # NoDate /\ end_date # NoDate
                 THEN << start_date, end_date >>
                 ELSE StatedDefaultWindow
            O == InWindowOrders(w)
        IN /\ report.window = w
           /\ SumOver(DOMAIN report.entries,
                      [i \in DOMAIN report.entries |-> report.entries[i].sales])
                 = SumOver(O, [o \in O |-> o.total_price])

(* a start date alone was given; an order after it and before the default  *)
(* window is left out                                                      *)
C27_Witness ==
    /\ IsRouterReport
    /\ report.request[1] = 20240101
    /\ report.request[2] = NoDate
    /\ report.window = StatedDefaultWindow
    /\ \E o \in orders : 20240101 <= o.order_date /\ o.order_date < 20240221
    /\ \E o \in InWindowOrders(report.window) : TRUE

(* both bounds were given and used *)
C27_WitnessBothGiven ==
    /\ IsRouterReport
    /\ report.request = << 20240101, 20241231 >>
    /\ report.window = << 20240101, 20241231 >>
    /\ report.kind = "monthly"
    /\ Len(report.entries) >= 1

----------------------------------------------------------------------------
(* Stock conservation *)

(* purchases in, less the stated expansion of the material's own orders *)
Balance(m, P, O) ==
    LET bought == {p \in P : p.material_id = m}
        sold == {o \in O : o.material_id = m}
    IN SumOver(bought, [p \in bought |-> p.quantity_kg * Unit])
         - SumOver(sold, [o \in sold |->
                             StatedExpansion(materials[m].type, o.quantity)])

ConservingOps == {"create_order", "delete_order", "create_material_purchase",
                  "delete_material_purchase", "delete_purchase",
                  "bulk_create_orders", "delete_customer"}

(* C28: with material types unchanged and no direct inventory overwrite,   *)
(* order creation and deletion, purchase creation, both purchase deletes,  *)
(* bulk order creation and customer deletion keep, for every regular or    *)
(* single_origin material, the inventory equal to the quantities of its    *)
(* purchases less factor * quantity of its orders (1.23 for single_origin, *)
(* 1 otherwise): each step moves the two sides by the same amount.         *)
C28_StockConservation ==
    [][ response'.op \in ConservingOps /\ materials' = materials
            => \A m \in DOMAIN inventory \cap DOMAIN inventory' :
                  materials[m].type \in {"regular", "single_origin"}
                      => inventory'[m] - inventory[m] =
                             Balance(m, purchases', orders')
                                 - Balance(m, purchases, orders) ]_vars

----------------------------------------------------------------------------
(* Consistency of the four report shapes *)

IsRouterListing ==
    IsRouterReport /\ report.kind \in {"by_product", "by_customer", "monthly"}

EntrySum(field) ==
    SumOver(DOMAIN report.entries,
            [i \in DOMAIN report.entries |-> report.entries[i][field]])

(* the summaries GET /api/analytics/profit/summary can give for the window *)
(* of the current report, one for each way the store may order purchases   *)
(* of one day                                                              *)
SummariesOfRequest ==
    {get_profit_summary(report.request[1], report.request[2], rank) :
        rank \in Ranks}

C29_WitnessMonthly ==
    /\ IsRouterListing
    /\ report.kind = "monthly"
    /\ Len(report.entries) = 2
    /\ EntrySum("cost") > 0

----------------------------------------------------------------------------
(* Purchases and their inverse *)

PurchaseDeletes == {"delete_material_purchase", "delete_purchase"}

(* the rows of every material but m are what they were *)
OtherRowsKept(m) ==
    /\ DOMAIN inventory' \ {m} = DOMAIN inventory \ {m}
    /\ \A k \in DOMAIN inventory \ {m} : inventory'[k] = inventory[k]

(* C30: creating a purchase raises the inventory of exactly its own        *)
(* material by exactly quantity_kg, creating the row if there is none, and *)
(* changes no other row; deleting that purchase next, through either       *)
(* purchase-delete endpoint, returns the quantity to its value before the  *)
(* purchase.                                                               *)
C30_PurchaseRoundTrip ==
    [][ /\ response'.op = "create_material_purchase"
           => \A p \in purchases' \ purchases :
                 /\ p.material_id \in DOMAIN inventory'
                 /\ inventory'[p.material_id] =
                        InventoryQuantity(inventory, p.material_id)
                            + p.quantity_kg * Unit
                 /\ OtherRowsKept(p.material_id)
        /\ ( /\ response.op = "create_material_purchase"
             /\ response'.op \in PurchaseDeletes
             /\ response'.status = 200 )
           => \A p \in purchases \ purchases' :
                 p.id = response.id
                     => /\ InventoryQuantity(inventory', p.material_id) =
                               InventoryQuantity(inventory_before, p.material_id)
                        /\ OtherRowsKept(p.material_id) ]_vars

====
